---- MODULE Spec2Model ----
(***************************************************************************)
(* MYexplorer: the window fingerprint tracking engine.                     *)
(*                                                                         *)
(* State: the operating system's top-level windows (win, zorder), the      *)
(* persisted tracking file, and the main window's tracking store           *)
(* m_fileWindowMap.  Operations: WM_CREATE (LoadTrackingMapping), WM_TIMER,*)
(* the activation handlers (double-click in either list, launcher button,  *)
(* CLI Enter), LaunchFile with its poll loop, ID_CLOSE_WINDOW and          *)
(* WM_DESTROY (SaveTrackingMapping).                                       *)
(*                                                                         *)
(* Strings are sequences of one-character strings, so that lower-casing,   *)
(* substring search, extension stripping, formatting and parsing are       *)
(* computed as the code computes them.                                     *)
(***************************************************************************)
EXTENDS Integers, Sequences, FiniteSets, TLC

VARIABLES
    win,              \* live top-level windows: handle -> window attributes
    zorder,           \* EnumWindows order (top of the z-order first)
    tick,             \* GetTickCount64
    trackingFile,     \* tracking.dat: [exists, lines]
    phase,            \* "constructed", "running", "calling", "launching", "exited"
    m_fileWindowMap,  \* file path -> TrackedWindow
    launch,           \* LaunchFile's locals while its poll loop runs
    arrival,          \* the launched process's window still to appear
    lastOp,           \* what the last handler did (observation only)
    events            \* windows created, destroyed or changed so far

vars == <<win, zorder, tick, trackingFile, phase, m_fileWindowMap,
          launch, arrival, lastOp, events>>

-----------------------------------------------------------------------------
(* Bounds of the model *)

MaxHwnd == 2
MaxPid == 2
MaxTick == 1
MaxEvents == 2

-----------------------------------------------------------------------------
(* Strings *)

UpperCase == <<"A","B","C","D","E","F","G","H","I","J","K","L","M",
               "N","O","P","Q","R","S","T","U","V","W","X","Y","Z">>
LowerCase == <<"a","b","c","d","e","f","g","h","i","j","k","l","m",
               "n","o","p","q","r","s","t","u","v","w","x","y","z">>

towlower(c) ==
    IF \E i \in 1..26 : UpperCase[i] = c
    THEN LowerCase[CHOOSE i \in 1..26 : UpperCase[i] = c]
    ELSE c

\* for (auto &c : s) c = towlower(c);
ToLower(s) == [i \in 1..Len(s) |-> towlower(s[i])]

\* std::wstring::find(needle) != npos
Contains(hay, needle) ==
    \E i \in 0..(Len(hay) - Len(needle)) :
        SubSeq(hay, i + 1, i + Len(needle)) = needle

\* std::wstring::rfind(ch): the last position of ch (1-based), 0 for npos
RFind(s, ch) ==
    IF \E i \in 1..Len(s) : s[i] = ch
    THEN CHOOSE i \in 1..Len(s) :
            s[i] = ch /\ \A j \in (i + 1)..Len(s) : s[j] # ch
    ELSE 0

\* s.substr(pos) with pos 0-based
SubstrFrom(s, pos) == SubSeq(s, pos + 1, Len(s))

EndsWith(s, suffix) ==
    /\ Len(s) >= Len(suffix)
    /\ SubSeq(s, Len(s) - Len(suffix) + 1, Len(s)) = suffix

lnkExt == <<".", "l", "n", "k">>

\* The extension is left in place.
StripNothing(fileLower) == fileLower

StripLnkExtension(fileLower) ==
    IF Len(fileLower) >= Len(lnkExt) /\ EndsWith(fileLower, lnkExt)
    THEN SubSeq(fileLower, 1, Len(fileLower) - Len(lnkExt))
    ELSE fileLower

-----------------------------------------------------------------------------
(* Config.h *)

PROJECT_FOLDER == <<"C", ":", "\\", "t", "m", "p">>
TIMER_INTERVAL == 500

\* The regular files of PROJECT_FOLDER, as PopulateListView lists them.
FileATxt == <<"a", ".", "t", "x", "t">>
FileBLnk == <<"B", ".", "L", "N", "K">>
FileCUrl == <<"c", ".", "u", "r", "l">>
FolderFiles == {FileATxt, FileBLnk, FileCUrl}

PathOf(fileName) == PROJECT_FOLDER \o <<"\\">> \o fileName

-----------------------------------------------------------------------------
(* The operating system: windows, handles, processes *)

NULL == 0
Hwnds == 1..MaxHwnd
Pids == 1..MaxPid

\* A kernel process handle (sei.hProcess) is a HANDLE value outside the range
\* of the window handles; HProcess(p) is an open handle to process p.
HProcBase == 100
HProcess(p) == HProcBase + p

TitleA == <<"A", ".", "T", "X", "T">>
TitleBoth == <<"b", " ", "a", ".", "t", "x", "t">>
TitleDoc == <<"d", "o", "c">>
TitleEmpty == <<>>
Titles == {TitleA, TitleBoth, TitleDoc, TitleEmpty}

ClassEd == <<"E", "d">>
ClassLower == <<"e", "d">>
Classes == {ClassEd, ClassLower}

RectHome == [left |-> 0, top |-> 0, right |-> 8, bottom |-> 6]
RectMoved == [left |-> 2, top |-> 1, right |-> 10, bottom |-> 7]
Rects == {RectHome, RectMoved}

\* The windows a process creates: visible document windows and an invisible
\* helper window.  Retitle, ShowHide and MoveWindow reach the other
\* combinations of attributes.
WindowKinds ==
    { [title |-> TitleA, cls |-> ClassEd, visible |-> TRUE],
      [title |-> TitleBoth, cls |-> ClassLower, visible |-> TRUE],
      [title |-> TitleDoc, cls |-> ClassEd, visible |-> FALSE] }

NewWindow(p, k) ==
    [pid |-> p, title |-> k.title, cls |-> k.cls, visible |-> k.visible,
     rect |-> RectHome]

IsWindow(hwnd, W) == hwnd \in DOMAIN W
IsWindowVisible(hwnd, W) == IsWindow(hwnd, W) /\ W[hwnd].visible

\* GetWindowThreadProcessId(hwnd, &pid): pid stays 0 for a handle that is no window
GetWindowThreadProcessId(hwnd, W) == IF IsWindow(hwnd, W) THEN W[hwnd].pid ELSE 0

\* GetProcessId(HANDLE Process): the id of the process a process handle refers
\* to; zero for a value that is not a process handle.
GetProcessId(handle) == IF handle > HProcBase THEN handle - HProcBase ELSE 0

\* GetWindowTextLength / GetWindowText followed by resize(wcslen)
GetWindowText(hwnd, W) == IF IsWindow(hwnd, W) THEN W[hwnd].title ELSE <<>>

\* GetClassName(hwnd, classBuf, 256): at most 255 characters are copied
ClassBufLen == 256
GetClassName(hwnd, W) ==
    IF IsWindow(hwnd, W)
    THEN SubSeq(W[hwnd].cls, 1,
                IF Len(W[hwnd].cls) < ClassBufLen THEN Len(W[hwnd].cls)
                ELSE ClassBufLen - 1)
    ELSE <<>>

\* The first handle of the EnumWindows order z that satisfies P, NULL if none:
\* the callbacks return FALSE at their first hit, which stops the enumeration.
\* The enumeration keeping the last window that matches.
LastInOrder(z, hits) ==
    IF \E i \in 1..Len(z) : z[i] \in hits
    THEN z[CHOOSE i \in 1..Len(z) :
               z[i] \in hits /\ \A j \in (i + 1)..Len(z) : z[j] \notin hits]
    ELSE NULL

FirstInOrder(z, hits) ==
    IF \E i \in 1..Len(z) : z[i] \in hits
    THEN z[CHOOSE i \in 1..Len(z) :
               z[i] \in hits /\ \A j \in 1..(i - 1) : z[j] \notin hits]
    ELSE NULL

EnumProcMain(hwnd, processID, W) ==
    GetWindowThreadProcessId(hwnd, W) = processID /\ IsWindowVisible(hwnd, W)

\* EnumProcMain without its IsWindowVisible test.
GetMainWindowHandleAnyWindow(processID, W, z) ==
    FirstInOrder(z, {h \in DOMAIN W : GetWindowThreadProcessId(h, W) = processID})

\* The callback comparing the title and the name as they are written.
EnumProcFileCaseSensitive(hwnd, fileName, W) ==
    LET title == GetWindowText(hwnd, W)
        fileStripped == StripLnkExtension(fileName)
    IN  /\ Len(title) > 0
        /\ fileStripped # <<>>
        /\ Contains(title, fileStripped)

\* The lookup taking the first visible window, whichever process owns it.
GetMainWindowHandleAnyProcess(processID, W, z) ==
    FirstInOrder(z, {h \in DOMAIN W : IsWindowVisible(h, W)})

GetMainWindowHandle(processID, W, z) ==
    FirstInOrder(z, {h \in DOMAIN W : EnumProcMain(h, processID, W)})

EnumProcFile(hwnd, fileName, W) ==
    LET title == GetWindowText(hwnd, W)
        titleLower == ToLower(title)
        fileLower == StripLnkExtension(ToLower(fileName))
    IN  /\ Len(title) > 0
        /\ fileLower # <<>>
        /\ Contains(titleLower, fileLower)

GetWindowHandleByFileName(fileName, W, z) ==
    FirstInOrder(z, {h \in DOMAIN W : EnumProcFile(h, fileName, W)})

-----------------------------------------------------------------------------
(* FingerprintUtils.cpp *)

\* GetFingerprint reads tw.rect through GetWindowRect, which leaves the
\* uninitialised RECT untouched for a handle that is no window: junk is the
\* value the field then holds.
GetFingerprint(hwnd, W, now, junk) ==
    [processId |-> GetProcessId(hwnd),
     hwnd |-> hwnd,
     rect |-> IF IsWindow(hwnd, W) THEN W[hwnd].rect ELSE junk,
     className |-> GetClassName(hwnd, W),
     windowTitle |-> GetWindowText(hwnd, W),
     failCount |-> 0,
     launchTime |-> now]

\* The strict comparison without its class-name test.
CompareFingerprintsSkipsClass(twStored, twCurrent) ==
    /\ twStored.processId = twCurrent.processId
    /\ twStored.rect = twCurrent.rect
    /\ ToLower(twStored.windowTitle) = ToLower(twCurrent.windowTitle)

\* The strict comparison on titles as they are.
CompareFingerprintsExactTitle(twStored, twCurrent) ==
    /\ twStored.processId = twCurrent.processId
    /\ twStored.className = twCurrent.className
    /\ twStored.rect = twCurrent.rect
    /\ twStored.windowTitle = twCurrent.windowTitle

\* The stable comparison reading the title as well.
CompareStableAttributesWithTitle(stored, current) ==
    /\ stored.processId = current.processId
    /\ stored.className = current.className
    /\ stored.windowTitle = current.windowTitle

JunkRects(hwnd, W) == IF IsWindow(hwnd, W) THEN {RectHome} ELSE Rects

CompareFingerprints(twStored, twCurrent) ==
    IF twStored.processId # twCurrent.processId THEN FALSE
    ELSE IF twStored.className # twCurrent.className THEN FALSE
    ELSE IF \/ twStored.rect.left # twCurrent.rect.left
            \/ twStored.rect.top # twCurrent.rect.top
            \/ twStored.rect.right # twCurrent.rect.right
            \/ twStored.rect.bottom # twCurrent.rect.bottom THEN FALSE
    ELSE ToLower(twStored.windowTitle) = ToLower(twCurrent.windowTitle)

CompareStableAttributes(stored, current) ==
    /\ stored.processId = current.processId
    /\ stored.className = current.className

-----------------------------------------------------------------------------
(* FileUtils.cpp: the persisted tracking file *)

\* tracking.dat: whether it can be opened, and its lines
NoFile == [exists |-> FALSE, lines |-> <<>>]
FileOf(lines) == [exists |-> TRUE, lines |-> lines]

\* Character order of the characters the model uses (their code points).
CodeOrder == <<"\t", " ", ".", "0", "1", "2", "3", "4", "5", "6", "7", "8", "9", ":">>
             \o UpperCase \o <<"\\">> \o LowerCase
Code(c) == CHOOSE i \in 1..Len(CodeOrder) : CodeOrder[i] = c

\* std::less<std::wstring>: the iteration order of the std::map
RECURSIVE LexLess(_, _)
LexLess(s, t) ==
    IF t = <<>> THEN FALSE
    ELSE IF s = <<>> THEN TRUE
    ELSE IF Code(s[1]) # Code(t[1]) THEN Code(s[1]) < Code(t[1])
    ELSE LexLess(Tail(s), Tail(t))

RECURSIVE SortedKeys(_)
SortedKeys(keys) ==
    IF keys = {} THEN <<>>
    ELSE LET least == CHOOSE k \in keys : \A o \in keys \ {k} : LexLess(k, o)
         IN  <<least>> \o SortedKeys(keys \ {least})

Digits == <<"0", "1", "2", "3", "4", "5", "6", "7", "8", "9">>
IsDigit(c) == \E i \in 1..10 : Digits[i] = c
DigitValue(c) == (CHOOSE i \in 1..10 : Digits[i] = c) - 1

\* ofs << processId
RECURSIVE FormatDword(_)
FormatDword(n) ==
    IF n < 10 THEN <<Digits[n + 1]>>
    ELSE FormatDword(n \div 10) \o <<Digits[(n % 10) + 1]>>

\* The line carrying the window title after the process id.
FormatLineWithTitle(path, tw) ==
    path \o <<"\t">> \o FormatDword(tw.processId) \o <<"\t">> \o tw.windowTitle

\* ofs << pair.first << L"\t" << pair.second.processId << std::endl
FormatLine(path, tw) == path \o <<"\t">> \o FormatDword(tw.processId)

SaveTrackingMapping(fileWindowMap) ==
    LET keys == SortedKeys(DOMAIN fileWindowMap)
    IN  [i \in 1..Len(keys) |-> FormatLine(keys[i], fileWindowMap[keys[i]])]

IsSpace(c) == c \in {" ", "\t"}

RECURSIVE SkipSpace(_)
SkipSpace(s) ==
    IF s # <<>> /\ IsSpace(s[1]) THEN SkipSpace(Tail(s)) ELSE s

\* operator>>(wstring&): the length of the leading run of non-space characters
RECURSIVE WordLength(_)
WordLength(s) ==
    IF s # <<>> /\ ~IsSpace(s[1]) THEN 1 + WordLength(Tail(s)) ELSE 0

\* operator>>(unsigned long&): the length of the leading run of digits
RECURSIVE DigitRunLength(_)
DigitRunLength(s) ==
    IF s # <<>> /\ IsDigit(s[1]) THEN 1 + DigitRunLength(Tail(s)) ELSE 0

RECURSIVE DecimalValue(_, _)
DecimalValue(ds, acc) ==
    IF ds = <<>> THEN acc
    ELSE DecimalValue(Tail(ds), acc * 10 + DigitValue(ds[1]))

\* The digits of the largest DWORD, 4294967295: a longer or larger run of
\* digits sets failbit.
MaxDwordDigits == <<"4", "2", "9", "4", "9", "6", "7", "2", "9", "5">>

RECURSIVE StripZeros(_)
StripZeros(ds) ==
    IF ds # <<>> /\ ds[1] = "0" THEN StripZeros(Tail(ds)) ELSE ds

DwordOverflows(ds) ==
    LET d == StripZeros(ds)
    IN  \/ Len(d) > Len(MaxDwordDigits)
        \/ Len(d) = Len(MaxDwordDigits) /\ LexLess(MaxDwordDigits, d)

\* iss >> filePath >> processId: ok is the state of the stream afterwards
ParseLine(line) ==
    LET s1 == SkipSpace(line)
        n1 == WordLength(s1)
        s2 == SkipSpace(SubSeq(s1, n1 + 1, Len(s1)))
        n2 == DigitRunLength(s2)
        digits == SubSeq(s2, 1, n2)
        ok == n1 > 0 /\ n2 > 0 /\ ~DwordOverflows(digits)
    IN  [ok |-> ok,
         filePath |-> SubSeq(s1, 1, n1),
         processId |-> IF ok THEN DecimalValue(digits, 0) ELSE 0]

\* The body of LoadTrackingMapping's loop for one line.
LoadLine(fileWindowMap, line, W, z, now) ==
    LET rec == ParseLine(line)
        byPid == GetMainWindowHandle(rec.processId, W, z)
        pos == RFind(rec.filePath, "\\")
        hwndTracked ==
            IF byPid # NULL THEN byPid
            ELSE IF pos # 0
                 THEN GetWindowHandleByFileName(SubstrFrom(rec.filePath, pos), W, z)
                 ELSE NULL
    IN  IF rec.ok /\ hwndTracked # NULL
        THEN [p \in DOMAIN fileWindowMap \cup {rec.filePath} |->
                 IF p = rec.filePath
                 THEN GetFingerprint(hwndTracked, W, now, RectHome)
                 ELSE fileWindowMap[p]]
        ELSE fileWindowMap

\* The loop leaving at the first line that does not parse.
RECURSIVE LoadLinesStopsAtBadLine(_, _, _, _, _)
LoadLinesStopsAtBadLine(fileWindowMap, lines, W, z, now) ==
    IF lines = <<>> \/ ~ParseLine(Head(lines)).ok THEN fileWindowMap
    ELSE LoadLinesStopsAtBadLine(LoadLine(fileWindowMap, Head(lines), W, z, now),
                                 Tail(lines), W, z, now)

RECURSIVE LoadLines(_, _, _, _, _)
LoadLines(fileWindowMap, lines, W, z, now) ==
    IF lines = <<>> THEN fileWindowMap
    ELSE LoadLines(LoadLine(fileWindowMap, Head(lines), W, z, now),
                   Tail(lines), W, z, now)

\* if (!ifs) return;  otherwise every line is processed in file order
LoadTrackingMapping(file, fileWindowMap, W, z, now) ==
    IF ~file.exists THEN fileWindowMap
    ELSE LoadLines(fileWindowMap, file.lines, W, z, now)

EmptyMap == [p \in {} |-> 0]

-----------------------------------------------------------------------------
(* MainWindow.cpp: resolving a file to its window *)

\* std::map::insert in place of operator[]: an existing entry is kept.
MapInsert(m, filePath, tw) ==
    [p \in DOMAIN m \cup {filePath} |-> IF p \in DOMAIN m THEN m[p] ELSE tw]

\* m[filePath] = tw, inserting the key if it is absent (std::map::operator[])
MapPut(m, filePath, tw) ==
    [p \in DOMAIN m \cup {filePath} |-> IF p = filePath THEN tw ELSE m[p]]

\* What one resolution of a file did: the entry it started from, the handle
\* GetFingerprint was called on, whether CompareStableAttributes was evaluated
\* and whether GetWindowHandleByFileName was called.
CallRecord(m, W, filePath, fpOn, csa, byName, found) ==
    [path |-> filePath,
     hadEntry |-> filePath \in DOMAIN m,
     storedHwnd |-> IF filePath \in DOMAIN m THEN m[filePath].hwnd ELSE NULL,
     storedLive |-> filePath \in DOMAIN m /\ IsWindow(m[filePath].hwnd, W),
     fpOn |-> fpOn, csa |-> csa, byName |-> byName, found |-> found]

\* The test without its IsWindow half.
HasEntry(m, filePath, W) == filePath \in DOMAIN m

\* it != m_fileWindowMap.end() && IsWindow(it->second.hwnd)
HasLiveEntry(m, filePath, W) ==
    filePath \in DOMAIN m /\ IsWindow(m[filePath].hwnd, W)

\* The re-validation that never replaces the stored record.
RevalidateKeepsStored(stored, currentFp) == stored

\* The re-validation counting a mismatch in the record it stores.
RevalidateCountsMismatch(stored, currentFp) ==
    IF CompareStableAttributes(stored, currentFp) THEN stored
    ELSE [currentFp EXCEPT !.failCount = stored.failCount + 1]

\* The re-validation shared by every handler: a fresh fingerprint of the stored
\* handle replaces the record only when the stable attributes differ.
Revalidate(stored, currentFp) ==
    IF CompareStableAttributes(stored, currentFp) THEN stored ELSE currentFp

\* The row showing "Not launched" whenever the stored handle is not live.
TimerRowNoTitleSearch(m, fileName, W, z, now) ==
    LET filePath == PathOf(fileName)
    IN  IF HasLiveEntry(m, filePath, W)
        THEN [map |-> m, hwndFound |-> m[filePath].hwnd,
              call |-> CallRecord(m, W, filePath, m[filePath].hwnd, TRUE, FALSE,
                                  m[filePath].hwnd)]
        ELSE [map |-> m, hwndFound |-> NULL,
              call |-> CallRecord(m, W, filePath, NULL, FALSE, FALSE, NULL)]

\* The row dropping an entry whose file resolves to no window.
TimerRowErasesStale(m, fileName, W, z, now) ==
    LET filePath == PathOf(fileName)
        hwndFound == GetWindowHandleByFileName(fileName, W, z)
    IN  IF HasLiveEntry(m, filePath, W)
        THEN [map |-> m, hwndFound |-> m[filePath].hwnd,
              call |-> CallRecord(m, W, filePath, m[filePath].hwnd, TRUE, FALSE,
                                  m[filePath].hwnd)]
        ELSE [map |-> IF hwndFound = NULL
                      THEN [p \in DOMAIN m \ {filePath} |-> m[p]]
                      ELSE m,
              hwndFound |-> hwndFound,
              call |-> CallRecord(m, W, filePath, NULL, FALSE, TRUE, hwndFound)]

\* The row's title search recording what it finds, as the activations do.
TimerRowInserts(m, fileName, W, z, now) ==
    LET filePath == PathOf(fileName)
        hwndFound == GetWindowHandleByFileName(fileName, W, z)
    IN  IF HasLiveEntry(m, filePath, W)
        THEN [map |-> m, hwndFound |-> m[filePath].hwnd,
              call |-> CallRecord(m, W, filePath, m[filePath].hwnd, TRUE, FALSE,
                                  m[filePath].hwnd)]
        ELSE [map |-> IF hwndFound # NULL
                      THEN MapPut(m, filePath,
                                  GetFingerprint(hwndFound, W, now, RectHome))
                      ELSE m,
              hwndFound |-> hwndFound,
              call |-> CallRecord(m, W, filePath, hwndFound, FALSE, TRUE, hwndFound)]

\* WM_TIMER, one row of a list (MainWindow.cpp, the File Tracking loop and the
\* CLI loop are the same code).
TimerRow(m, fileName, W, z, now) ==
    LET filePath == PathOf(fileName)
    IN  IF HasLiveEntry(m, filePath, W)
        THEN LET hwnd == m[filePath].hwnd
                 currentFp == GetFingerprint(hwnd, W, now, RectHome)
                 kept == Revalidate(m[filePath], currentFp)
             IN  [map |-> [m EXCEPT ![filePath] = kept],
                  hwndFound |-> kept.hwnd,
                  call |-> CallRecord(m, W, filePath, hwnd, TRUE, FALSE, kept.hwnd)]
        ELSE LET hwndFound == GetWindowHandleByFileName(fileName, W, z)
             IN  [map |-> m,
                  hwndFound |-> hwndFound,
                  call |-> CallRecord(m, W, filePath, NULL, FALSE, TRUE, hwndFound)]

\* The rows of a list view, in the order they are visited.
ListRows == SortedKeys(FolderFiles)

\* The two status loops of WM_TIMER: [map, calls] after the rows of rows.
RECURSIVE TimerRows(_, _, _, _, _, _)
TimerRows(m, rows, W, z, now, calls) ==
    IF rows = <<>> THEN [map |-> m, calls |-> calls]
    ELSE LET r == TimerRow(m, Head(rows), W, z, now)
         IN  TimerRows(r.map, Tail(rows), W, z, now, calls \cup {r.call})

\* The normal logic launching whenever the stored handle is not live.
NormalLogicNoTitleSearch(m, filePath, fileName, W, z, now) ==
    IF HasLiveEntry(m, filePath, W)
    THEN [map |-> m, activate |-> m[filePath].hwnd, launchIt |-> FALSE,
          call |-> CallRecord(m, W, filePath, m[filePath].hwnd, TRUE, FALSE,
                              m[filePath].hwnd)]
    ELSE [map |-> m, activate |-> NULL, launchIt |-> TRUE,
          call |-> CallRecord(m, W, filePath, NULL, FALSE, FALSE, NULL)]

\* The normal logic going by the title search alone, whatever the store holds.
NormalLogicByTitleOnly(m, filePath, fileName, W, z, now) ==
    LET hwndFound == GetWindowHandleByFileName(fileName, W, z)
    IN  IF hwndFound # NULL
        THEN [map |-> MapPut(m, filePath,
                             GetFingerprint(hwndFound, W, now, RectHome)),
              activate |-> hwndFound,
              launchIt |-> FALSE,
              call |-> CallRecord(m, W, filePath, hwndFound, FALSE, TRUE, hwndFound)]
        ELSE [map |-> m,
              activate |-> NULL,
              launchIt |-> TRUE,
              call |-> CallRecord(m, W, filePath, NULL, FALSE, TRUE, NULL)]

\* The normal logic keeping a handle under one key only: the title search's
\* window is taken away from every other key that holds it.
NormalLogicOneKeyPerHandle(m, filePath, fileName, W, z, now) ==
    IF HasLiveEntry(m, filePath, W)
    THEN LET hwnd == m[filePath].hwnd
             currentFp == GetFingerprint(hwnd, W, now, RectHome)
             kept == Revalidate(m[filePath], currentFp)
         IN  [map |-> [m EXCEPT ![filePath] = kept],
              activate |-> kept.hwnd,
              launchIt |-> FALSE,
              call |-> CallRecord(m, W, filePath, hwnd, TRUE, FALSE, kept.hwnd)]
    ELSE LET hwndFound == GetWindowHandleByFileName(fileName, W, z)
             others == {q \in DOMAIN m : q = filePath \/ m[q].hwnd # hwndFound}
         IN  IF hwndFound # NULL
             THEN [map |-> MapPut([q \in others |-> m[q]], filePath,
                                  GetFingerprint(hwndFound, W, now, RectHome)),
                   activate |-> hwndFound,
                   launchIt |-> FALSE,
                   call |-> CallRecord(m, W, filePath, hwndFound, FALSE, TRUE, hwndFound)]
             ELSE [map |-> m,
                   activate |-> NULL,
                   launchIt |-> TRUE,
                   call |-> CallRecord(m, W, filePath, NULL, FALSE, TRUE, NULL)]

\* "Normal logic" of the activation handlers: NM_DBLCLK in either list, a
\* launcher button, Enter in the CLI edit.  launchIt says LaunchFile is called.
NormalLogic(m, filePath, fileName, W, z, now) ==
    IF HasLiveEntry(m, filePath, W)
    THEN LET hwnd == m[filePath].hwnd
             currentFp == GetFingerprint(hwnd, W, now, RectHome)
             kept == Revalidate(m[filePath], currentFp)
         IN  [map |-> [m EXCEPT ![filePath] = kept],
              activate |-> kept.hwnd,
              launchIt |-> FALSE,
              call |-> CallRecord(m, W, filePath, hwnd, TRUE, FALSE, kept.hwnd)]
    ELSE LET hwndFound == GetWindowHandleByFileName(fileName, W, z)
         IN  IF hwndFound # NULL
             THEN [map |-> MapPut(m, filePath,
                                  GetFingerprint(hwndFound, W, now, RectHome)),
                   activate |-> hwndFound,
                   launchIt |-> FALSE,
                   call |-> CallRecord(m, W, filePath, hwndFound, FALSE, TRUE, hwndFound)]
             ELSE [map |-> m,
                   activate |-> NULL,
                   launchIt |-> TRUE,
                   call |-> CallRecord(m, W, filePath, NULL, FALSE, TRUE, NULL)]

\* SetForegroundWindow: the window goes to the top of the z-order.
BringToTop(z, hwnd) ==
    IF \E i \in 1..Len(z) : z[i] = hwnd
    THEN <<hwnd>> \o SelectSeq(z, LAMBDA h : h # hwnd)
    ELSE z

\* ActivateTrackedWindow(tw)
ActivateTrackedWindow(z, hwnd) == BringToTop(z, hwnd)

-----------------------------------------------------------------------------
(* State *)

pollInterval == 250
maxPollTime == 1000

\* When the launched process shows its window, in ms after ShellExecuteExW
\* returned (0: the window is there when the call returns).
ArrivalTimes == {0, 400, 999, 1001}

NoLaunch == [filePath |-> <<>>, hProcess |-> NULL, elapsed |-> 0, mapAtCall |-> EmptyMap]
NoArrival == [pid |-> 0, at |-> -1, hwnd |-> NULL]

\* lastOp: the handler that ran last, the store it started from, the
\* resolutions it made, the message box it raised, and for a LaunchFile
\* return the window it found and the launched window's arrival.
Op(op, calls, path, msg, found, arr) ==
    [op |-> op, calls |-> calls, path |-> path, msg |-> msg, found |-> found,
     arr |-> arr]

NoOp == Op("none", {}, <<>>, "", NULL, NoArrival)

\* what an activation handler did, with what reading the .url file gave it
ActOp(op, calls, path, msg, found, urlRead) ==
    [op |-> op, calls |-> calls, path |-> path, msg |-> msg, found |-> found,
     arr |-> NoArrival, urlRead |-> urlRead]

\* tracking.dat as an earlier session left it
LineA1 == PathOf(FileATxt) \o <<"\t", "1">>
LineB2 == PathOf(FileBLnk) \o <<"\t", "2">>
InitialFiles == {FileOf(<<LineA1, LineB2>>)}

\* The desktop when the program starts: empty, or with the windows of two
\* documents opened earlier, the second of which shows no file name.
InitialDesktops ==
    { [h \in {} |-> 0],
      [h \in {1, 2} |->
          IF h = 1
          THEN NewWindow(1, [title |-> TitleA, cls |-> ClassEd, visible |-> TRUE])
          ELSE NewWindow(2, [title |-> TitleDoc, cls |-> ClassEd, visible |-> TRUE])] }

\* EnumWindows lists the windows of the initial desktop by handle.
InitialOrder(W) == IF DOMAIN W = {} THEN <<>> ELSE <<1, 2>>

Init ==
    /\ win \in InitialDesktops
    /\ zorder = InitialOrder(win)
    /\ tick = 0
    /\ trackingFile \in InitialFiles
    /\ phase = "constructed"
    /\ m_fileWindowMap = EmptyMap
    /\ launch = NoLaunch
    /\ arrival = NoArrival
    /\ lastOp = NoOp
    /\ events = 0

appVars == <<trackingFile, phase, m_fileWindowMap, launch>>

-----------------------------------------------------------------------------
(* The environment: other processes and the user acting on their windows *)

FreeHwnds == Hwnds \ DOMAIN win

AddWindow(W, h, w) == [x \in DOMAIN W \cup {h} |-> IF x = h THEN w ELSE W[x]]
RemoveWindow(W, h) == [x \in DOMAIN W \ {h} |-> W[x]]

EnvStep == /\ phase # "exited"
           /\ events < MaxEvents
           /\ events' = events + 1
           /\ lastOp' = NoOp
           /\ UNCHANGED <<tick, appVars, arrival>>

\* A process creates a top-level window; it goes to the top of the z-order.
OpenWindow(h, p, k) ==
    /\ h \in FreeHwnds
    /\ win' = AddWindow(win, h, NewWindow(p, k))
    /\ zorder' = <<h>> \o zorder
    /\ EnvStep

\* A window is destroyed.
CloseWindow(h) ==
    /\ h \in DOMAIN win
    /\ win' = RemoveWindow(win, h)
    /\ zorder' = SelectSeq(zorder, LAMBDA x : x # h)
    /\ EnvStep

\* The application owning the window changes its title bar.
Retitle(h, t) ==
    /\ h \in DOMAIN win
    /\ t # win[h].title
    /\ win' = [win EXCEPT ![h].title = t]
    /\ UNCHANGED zorder
    /\ EnvStep

MoveWindow(h) ==
    /\ h \in DOMAIN win
    /\ win' = [win EXCEPT ![h].rect = IF @ = RectHome THEN RectMoved ELSE RectHome]
    /\ UNCHANGED zorder
    /\ EnvStep

ShowHide(h) ==
    /\ h \in DOMAIN win
    /\ win' = [win EXCEPT ![h].visible = ~@]
    /\ UNCHANGED zorder
    /\ EnvStep

\* The user clicks a window that is not on top.
RaiseWindow(h) ==
    /\ h \in DOMAIN win
    /\ zorder # <<>> /\ zorder[1] # h
    /\ zorder' = BringToTop(zorder, h)
    /\ UNCHANGED win
    /\ EnvStep

\* GetTickCount64 advances.
TimePasses ==
    /\ tick < MaxTick
    /\ tick' = tick + 1
    /\ events < MaxEvents
    /\ events' = events + 1
    /\ lastOp' = NoOp
    /\ UNCHANGED <<win, zorder, appVars, arrival>>

-----------------------------------------------------------------------------
(* The application's message handlers *)

\* WinMain's message loop: the thread waits in GetMessage between two handlers.
InLoop == phase = "running" /\ lastOp = NoOp

GetMessage ==
    /\ phase = "running"
    /\ lastOp # NoOp
    /\ lastOp' = NoOp
    /\ UNCHANGED <<win, zorder, tick, trackingFile, phase, m_fileWindowMap,
                   launch, arrival, events>>

envVars == <<win, tick, events>>

\* WM_CREATE: OnCreate, SetTimer, LoadTrackingMapping.
\* readable: whether tracking.dat can be opened for reading.
WMCreate(readable) ==
    /\ phase = "constructed"
    /\ phase' = "running"
    /\ m_fileWindowMap' =
           LoadTrackingMapping(IF readable THEN trackingFile ELSE NoFile,
                               m_fileWindowMap, win, zorder, tick)
    /\ lastOp' = Op(IF readable THEN "create" ELSE "createNoFile", {}, <<>>, "",
                    NULL, NoArrival)
    /\ UNCHANGED <<envVars, zorder, trackingFile, launch, arrival>>

\* WM_TIMER: the File Tracking rows, then the CLI rows
WMTimer ==
    /\ InLoop
    /\ LET first == TimerRows(m_fileWindowMap, ListRows, win, zorder, tick, {})
           second == TimerRows(first.map, ListRows, win, zorder, tick, first.calls)
       IN  /\ m_fileWindowMap' = second.map
           /\ lastOp' = Op("timer", second.calls, <<>>, "",
                           NULL, NoArrival)
    /\ UNCHANGED <<envVars, zorder, trackingFile, phase, launch, arrival>>

\* lowerPath.size() >= 4 && lowerPath.rfind(L".url") == lowerPath.size() - 4
urlExt == <<".", "u", "r", "l">>
IsUrlFile(filePath) == EndsWith(ToLower(filePath), urlExt)

\* What reading a .url file yields: it cannot be opened, it has a URL= line
\* with a non-empty value, or it has none.
UrlReads == {"unreadable", "url", "nourl"}

\* ShellExecuteExW: the processes it can have started.  A new process has no
\* window yet; hProcess is NULL when no new process was started.
LaunchablePids ==
    {p \in Pids : (\A h \in DOMAIN win : win[h].pid # p) /\ arrival.pid # p}

\* The inputs of ShellExecuteExW: its result, the process started, when that
\* process shows its window, and for a window that is there when the call
\* returns its handle and kind.
AnyKind == CHOOSE k \in WindowKinds : TRUE

LaunchInputs ==
    {<<"fail", 0, -1, NULL, AnyKind>>, <<"noprocess", 0, -1, NULL, AnyKind>>}
    \cup {<<"process", p, -1, NULL, AnyKind>> : p \in LaunchablePids}
    \cup {<<"process", p, at, NULL, AnyKind>> :
              p \in LaunchablePids, at \in ArrivalTimes \ {0}}
    \cup {<<"process", p, 0, h, k>> :
              p \in LaunchablePids, h \in FreeHwnds, k \in WindowKinds}

\* The result of the call is not tested.
ShellExecuteExWUnchecked(shell) == TRUE

\* if (ShellExecuteExW(&sei)): shell = "fail" is the call returning FALSE
ShellExecuteExW(shell) == shell # "fail"

\* LaunchFile from its entry to the first iteration of its poll loop.
LaunchFileCall(shell, p, at, h, k) ==
    /\ phase = "calling"
    /\ IF ~ShellExecuteExW(shell)
       THEN /\ phase' = "running"
            /\ launch' = NoLaunch
            /\ lastOp' = Op("launchFailed", {}, launch.filePath,
                            "Failed to launch file.", NULL, NoArrival)
            /\ UNCHANGED <<win, zorder, arrival, events>>
       ELSE /\ phase' = "launching"
            /\ launch' = [launch EXCEPT
                   !.hProcess = IF shell = "process" THEN HProcess(p) ELSE NULL]
            /\ lastOp' = NoOp
            /\ IF shell = "process" /\ at = 0
               THEN /\ events < MaxEvents
                    /\ events' = events + 1
                    /\ win' = AddWindow(win, h, NewWindow(p, k))
                    /\ zorder' = <<h>> \o zorder
                    /\ arrival' = [pid |-> p, at |-> 0, hwnd |-> h]
               ELSE /\ UNCHANGED <<win, zorder, events>>
                    /\ arrival' = IF shell = "process"
                                  THEN [pid |-> p, at |-> at, hwnd |-> NULL]
                                  ELSE NoArrival
    /\ UNCHANGED <<tick, trackingFile, m_fileWindowMap>>

\* The activation without the .url branch: the file goes to the normal logic.
ActivateUrlByShell(filePath, fileName, urlRead) ==
    /\ InLoop
    /\ IF IsUrlFile(filePath) /\ urlRead = "unreadable"
       THEN /\ lastOp' = ActOp("urlError", {}, filePath,
                               "Failed to open .url file.", NULL, urlRead)
            /\ UNCHANGED <<win, zorder, phase, m_fileWindowMap, launch, arrival, events>>
       ELSE IF FALSE
       THEN /\ lastOp' = ActOp("browser", {}, filePath, "", NULL, urlRead)
            /\ UNCHANGED <<win, zorder, phase, m_fileWindowMap, launch, arrival, events>>
       ELSE LET r == NormalLogic(m_fileWindowMap, filePath, fileName,
                                 win, zorder, tick)
            IN  /\ m_fileWindowMap' = r.map
                /\ IF r.launchIt
                   THEN /\ phase' = "calling"
                        /\ launch' = [filePath |-> filePath, hProcess |-> NULL,
                                      elapsed |-> 0,
                                      mapAtCall |-> m_fileWindowMap]
                        /\ lastOp' = ActOp("launchCall", {r.call},
                                           filePath, "", NULL, urlRead)
                        /\ UNCHANGED <<win, zorder, arrival, events>>
                   ELSE /\ zorder' = ActivateTrackedWindow(zorder, r.activate)
                        /\ lastOp' = ActOp("activate", {r.call},
                                           filePath, "", r.activate, urlRead)
                        /\ UNCHANGED <<win, phase, launch, arrival, events>>
    /\ UNCHANGED <<tick, trackingFile>>

\* The activation handlers after the file name is known: the .url branch, then
\* the normal logic.  urlRead is what reading the .url file yields.
Activate(filePath, fileName, urlRead) ==
    /\ InLoop
    /\ IF IsUrlFile(filePath) /\ urlRead = "unreadable"
       THEN /\ lastOp' = ActOp("urlError", {}, filePath,
                               "Failed to open .url file.", NULL, urlRead)
            /\ UNCHANGED <<win, zorder, phase, m_fileWindowMap, launch, arrival, events>>
       ELSE IF IsUrlFile(filePath) /\ urlRead = "url"
       THEN /\ lastOp' = ActOp("browser", {}, filePath, "", NULL, urlRead)
            /\ UNCHANGED <<win, zorder, phase, m_fileWindowMap, launch, arrival, events>>
       ELSE LET r == NormalLogic(m_fileWindowMap, filePath, fileName,
                                 win, zorder, tick)
            IN  /\ m_fileWindowMap' = r.map
                /\ IF r.launchIt
                   THEN /\ phase' = "calling"
                        /\ launch' = [filePath |-> filePath, hProcess |-> NULL,
                                      elapsed |-> 0,
                                      mapAtCall |-> m_fileWindowMap]
                        /\ lastOp' = ActOp("launchCall", {r.call},
                                           filePath, "", NULL, urlRead)
                        /\ UNCHANGED <<win, zorder, arrival, events>>
                   ELSE /\ zorder' = ActivateTrackedWindow(zorder, r.activate)
                        /\ lastOp' = ActOp("activate", {r.call},
                                           filePath, "", r.activate, urlRead)
                        /\ UNCHANGED <<win, phase, launch, arrival, events>>
    /\ UNCHANGED <<tick, trackingFile>>

UrlReadsFor(fileName) ==
    IF IsUrlFile(PathOf(fileName)) THEN UrlReads ELSE {"nourl"}

\* NM_DBLCLK in the File Tracking list
DblClickFileList(fileName) ==
    \E u \in UrlReadsFor(fileName) : Activate(PathOf(fileName), fileName, u)

\* NM_DBLCLK in the CLI list
DblClickCLIList(fileName) ==
    \E u \in UrlReadsFor(fileName) : Activate(PathOf(fileName), fileName, u)

\* WM_COMMAND of a launcher button mapped to filePath
LauncherButton(fileName) ==
    LET filePath == PathOf(fileName)
    IN  \E u \in UrlReadsFor(fileName) :
            Activate(filePath, SubstrFrom(filePath, RFind(filePath, "\\")), u)

\* VK_RETURN in the CLI edit with the trimmed text input
CLIEnter(input) ==
    IF input = <<>>
    THEN /\ InLoop
         /\ lastOp' = Op("cliError", {}, <<>>,
                         "Please enter a file name.", NULL, NoArrival)
         /\ UNCHANGED <<envVars, zorder, appVars, arrival>>
    ELSE \E u \in UrlReadsFor(input) : Activate(PathOf(input), input, u)

\* The assignment without its if (hwndLaunched).
RecordLaunchAlways(fileWindowMap, filePath, hwndLaunched, W, now) ==
    MapPut(fileWindowMap, filePath, GetFingerprint(hwndLaunched, W, now, RectHome))

\* if (hwndLaunched) fileWindowMap[filePath] = GetFingerprint(hwndLaunched);
RecordLaunch(fileWindowMap, filePath, hwndLaunched, W, now) ==
    IF hwndLaunched # NULL
    THEN MapPut(fileWindowMap, filePath,
                GetFingerprint(hwndLaunched, W, now, RectHome))
    ELSE fileWindowMap

\* The poll loop testing the ceiling with <= : it looks up once more, at 1000 ms.
LaunchIterOnFiveLookups(h, k) ==
    /\ phase = "launching"
    /\ LET pid == GetProcessId(launch.hProcess)
           hwndLaunched == GetMainWindowHandle(pid, win, zorder)
           slept == launch.elapsed + pollInterval
           arrives == /\ arrival.hwnd = NULL
                      /\ launch.elapsed < arrival.at /\ arrival.at <= slept
                      /\ h \in FreeHwnds
                      /\ events < MaxEvents
           arr == IF arrives THEN [arrival EXCEPT !.hwnd = h] ELSE arrival
           Return(found) ==
               /\ m_fileWindowMap' =
                      RecordLaunch(m_fileWindowMap, launch.filePath, found,
                                   win, tick)
               /\ phase' = "running"
               /\ launch' = NoLaunch
               /\ lastOp' = Op("launchReturn",
                               {CallRecord(m_fileWindowMap, win, launch.filePath,
                                           found, FALSE, FALSE, found)},
                               launch.filePath, "", found, arr)
               /\ arrival' = NoArrival
       IN  IF hwndLaunched # NULL
           THEN /\ Return(hwndLaunched)
                /\ UNCHANGED <<win, zorder, events>>
           ELSE /\ IF arrives
                   THEN /\ win' = AddWindow(win, h, NewWindow(arrival.pid, k))
                        /\ zorder' = <<h>> \o zorder
                        /\ events' = events + 1
                   ELSE UNCHANGED <<win, zorder, events>>
                /\ IF slept <= maxPollTime
                   THEN /\ launch' = [launch EXCEPT !.elapsed = slept]
                        /\ arrival' = arr
                        /\ UNCHANGED <<phase, lastOp, m_fileWindowMap>>
                   ELSE Return(NULL)
    /\ UNCHANGED <<tick, trackingFile>>

\* One iteration of LaunchFile's poll loop, with the code after the loop when
\* the loop ends.  The launched process's window appears during the sleep when
\* its arrival time falls in it; it takes handle h and is of kind k.
LaunchIterOn(h, k) ==
    /\ phase = "launching"
    /\ LET pid == GetProcessId(launch.hProcess)
           hwndLaunched == GetMainWindowHandle(pid, win, zorder)
           slept == launch.elapsed + pollInterval
           arrives == /\ arrival.hwnd = NULL
                      /\ launch.elapsed < arrival.at /\ arrival.at <= slept
                      /\ h \in FreeHwnds
                      /\ events < MaxEvents
           arr == IF arrives THEN [arrival EXCEPT !.hwnd = h] ELSE arrival
           Return(found) ==
               /\ m_fileWindowMap' =
                      RecordLaunch(m_fileWindowMap, launch.filePath, found,
                                   win, tick)
               /\ phase' = "running"
               /\ launch' = NoLaunch
               /\ lastOp' = Op("launchReturn",
                               {CallRecord(m_fileWindowMap, win, launch.filePath,
                                           found, FALSE, FALSE, found)},
                               launch.filePath, "", found, arr)
               /\ arrival' = NoArrival
       IN  IF hwndLaunched # NULL
           THEN /\ Return(hwndLaunched)
                /\ UNCHANGED <<win, zorder, events>>
           ELSE /\ IF arrives
                   THEN /\ win' = AddWindow(win, h, NewWindow(arrival.pid, k))
                        /\ zorder' = <<h>> \o zorder
                        /\ events' = events + 1
                   ELSE UNCHANGED <<win, zorder, events>>
                /\ IF slept < maxPollTime
                   THEN /\ launch' = [launch EXCEPT !.elapsed = slept]
                        /\ arrival' = arr
                        /\ UNCHANGED <<phase, lastOp, m_fileWindowMap>>
                   ELSE Return(NULL)
    /\ UNCHANGED <<tick, trackingFile>>

\* Whether the launched process's window is due in the sleep that starts now.
ArrivalDue ==
    /\ arrival.hwnd = NULL
    /\ launch.elapsed < arrival.at
    /\ arrival.at <= launch.elapsed + pollInterval
    /\ GetMainWindowHandle(GetProcessId(launch.hProcess), win, zorder) = NULL

LaunchIter ==
    IF ArrivalDue /\ FreeHwnds # {} /\ events < MaxEvents
    THEN \E h \in FreeHwnds, k \in WindowKinds : LaunchIterOn(h, k)
    ELSE LaunchIterOn(NULL, AnyKind)

\* The command posting to the stored handle without IsWindow.
CloseWindowCommandUnchecked(fileName) ==
    /\ InLoop
    /\ LET filePath == PathOf(fileName)
           postedTo == IF filePath \in DOMAIN m_fileWindowMap
                       THEN m_fileWindowMap[filePath].hwnd
                       ELSE NULL
       IN  lastOp' = Op("closeCommand", {}, filePath, "", postedTo, NoArrival)
    /\ UNCHANGED <<win, zorder, tick, events, trackingFile, phase,
                   m_fileWindowMap, launch, arrival>>

\* The command erasing the entry of the window it closes.
CloseWindowCommandErases(fileName) ==
    /\ InLoop
    /\ LET filePath == PathOf(fileName)
       IN  /\ m_fileWindowMap' =
                  [q \in DOMAIN m_fileWindowMap \ {filePath} |-> m_fileWindowMap[q]]
           /\ lastOp' = Op("closeCommand", {}, filePath, "", NULL, NoArrival)
    /\ UNCHANGED <<win, zorder, tick, events, trackingFile, phase, launch, arrival>>

\* WM_COMMAND ID_CLOSE_WINDOW with the row of fileName selected: WM_CLOSE is
\* posted to the tracked window, which closes, or not, when it processes it
\* (CloseWindow).
CloseWindowCommand(fileName) ==
    /\ InLoop
    /\ LET filePath == PathOf(fileName)
           postedTo == IF HasLiveEntry(m_fileWindowMap, filePath, win)
                       THEN m_fileWindowMap[filePath].hwnd
                       ELSE NULL
       IN  lastOp' = Op("closeCommand", {}, filePath, "",
                        postedTo, NoArrival)
    /\ UNCHANGED <<win, zorder, tick, events, appVars, arrival>>

\* WM_DESTROY writing the file whether the stream opened or not.
WMDestroyAlwaysWrites(writable) ==
    /\ InLoop
    /\ phase' = "exited"
    /\ trackingFile' = FileOf(SaveTrackingMapping(m_fileWindowMap))
    /\ lastOp' = Op(IF writable THEN "destroy" ELSE "destroyNoFile", {}, <<>>, "",
                    NULL, NoArrival)
    /\ UNCHANGED <<envVars, zorder, m_fileWindowMap, launch, arrival>>

\* WM_DESTROY: SaveTrackingMapping, KillTimer, PostQuitMessage.
\* writable: whether tracking.dat can be opened for writing.
WMDestroy(writable) ==
    /\ InLoop
    /\ phase' = "exited"
    /\ trackingFile' = IF writable
                       THEN FileOf(SaveTrackingMapping(m_fileWindowMap))
                       ELSE trackingFile
    /\ lastOp' = Op(IF writable THEN "destroy" ELSE "destroyNoFile", {}, <<>>, "",
                    NULL, NoArrival)
    /\ UNCHANGED <<envVars, zorder, m_fileWindowMap, launch, arrival>>

CliInputs == FolderFiles \cup {<<>>}

Next ==
    \/ \E h \in Hwnds, p \in Pids, k \in WindowKinds : OpenWindow(h, p, k)
    \/ \E h \in Hwnds : CloseWindow(h)
    \/ \E h \in Hwnds, t \in Titles : Retitle(h, t)
    \/ TimePasses
    \/ GetMessage
    \/ \E readable \in BOOLEAN : WMCreate(readable)
    \/ WMTimer
    \/ \E f \in FolderFiles : DblClickFileList(f)
    \/ \E f \in FolderFiles : DblClickCLIList(f)
    \/ \E f \in FolderFiles : LauncherButton(f)
    \/ \E input \in CliInputs : CLIEnter(input)
    \/ \E in \in LaunchInputs : LaunchFileCall(in[1], in[2], in[3], in[4], in[5])
    \/ LaunchIter
    \/ \E f \in FolderFiles : CloseWindowCommand(f)
    \/ \E writable \in BOOLEAN : WMDestroy(writable)

Spec == Init /\ [][Next]_vars

\* LaunchFile runs on the thread that called it: once ShellExecuteExW has
\* returned, each sleep ends and the loop goes on.
SpecLaunchFair == Spec /\ WF_vars(LaunchIter)

-----------------------------------------------------------------------------
(* Startup alone: LoadTrackingMapping against the windows of the desktop *)

\* The records (path, processId) of a tracking.dat and the line of each.
Rec(f, q) == [path |-> PathOf(f), pid |-> q]

LoadRecordSeqs ==
    { <<Rec(FileATxt, 1), Rec(FileBLnk, 2)>>,
      <<Rec(FileBLnk, 0)>>,
      <<Rec(FileATxt, 2)>>,
      <<Rec(FileBLnk, 1), Rec(FileATxt, 0)>> }

RecordLine(rec) == rec.path \o <<"\t">> \o FormatDword(rec.pid)

RecordsFile(recs) == FileOf([i \in 1..Len(recs) |-> RecordLine(recs[i])])

\* lines without a process id: the path alone, a word where the number is
\* expected, no token at all
LinePathOnly == PathOf(FileATxt)
LineWordForPid == PathOf(FileATxt) \o <<"\t", "x">>
LineBlank == <<" ">>
MalformedLines == {LinePathOnly, LineWordForPid, LineBlank, <<>>}

\* files in which such lines come before well-formed ones
MalformedFiles ==
    { <<LinePathOnly, LineB2>>,
      <<LineA1, LineWordForPid, LineB2>>,
      <<LineBlank, <<>>, LineA1>> }

InitLoad ==
    /\ win \in InitialDesktops
    /\ zorder = InitialOrder(win)
    /\ tick = 0
    /\ trackingFile \in {RecordsFile(recs) : recs \in LoadRecordSeqs}
                          \cup {FileOf(lines) : lines \in MalformedFiles}
    /\ phase = "constructed"
    /\ m_fileWindowMap = EmptyMap
    /\ launch = NoLaunch
    /\ arrival = NoArrival
    /\ lastOp = NoOp
    /\ events = 0

\* The desktop changes until the program's window is created.
NextLoad ==
    \/ \E h \in Hwnds, p \in Pids, k \in WindowKinds :
           phase = "constructed" /\ OpenWindow(h, p, k)
    \/ \E h \in Hwnds : phase = "constructed" /\ CloseWindow(h)
    \/ \E h \in Hwnds, t \in Titles : phase = "constructed" /\ Retitle(h, t)
    \/ \E h \in Hwnds : phase = "constructed" /\ MoveWindow(h)
    \/ \E h \in Hwnds : phase = "constructed" /\ ShowHide(h)
    \/ \E h \in Hwnds : phase = "constructed" /\ RaiseWindow(h)
    \/ \E readable \in BOOLEAN : WMCreate(readable)

SpecLoad == InitLoad /\ [][NextLoad]_vars

-----------------------------------------------------------------------------
(* The two comparisons on their own: every pair of sample fingerprints *)

TitleALower == <<"a", ".", "t", "x", "t">>

\* RectHome with one edge displaced
EdgeRects ==
    {[RectHome EXCEPT !.left = 1], [RectHome EXCEPT !.top = 1],
     [RectHome EXCEPT !.right = 9], [RectHome EXCEPT !.bottom = 7]}

\* TrackedWindow values: every field takes at least two values, the class
\* name and the title each in two letter cases
SampleFingerprints ==
    { [processId |-> p, hwnd |-> o.hwnd, rect |-> r, className |-> c,
       windowTitle |-> t, failCount |-> o.failCount, launchTime |-> o.launchTime] :
        p \in {0, 1}, r \in {RectHome} \cup EdgeRects, c \in Classes,
        t \in {TitleA, TitleALower, TitleDoc},
        o \in {[hwnd |-> 1, failCount |-> 0, launchTime |-> 0],
               [hwnd |-> 2, failCount |-> 1, launchTime |-> 400]} }

InitCompare ==
    /\ win = EmptyMap
    /\ zorder = <<>>
    /\ tick = 0
    /\ trackingFile = NoFile
    /\ phase = "constructed"
    /\ m_fileWindowMap = EmptyMap
    /\ launch = NoLaunch
    /\ arrival = NoArrival
    /\ events = 0
    /\ \E s \in SampleFingerprints, c \in SampleFingerprints :
           lastOp = [op |-> "fingerprints", stored |-> s, current |-> c]

\* both comparisons applied to the pair
Compare ==
    /\ lastOp.op = "fingerprints"
    /\ lastOp' = [op |-> "compared",
                  stored |-> lastOp.stored,
                  current |-> lastOp.current,
                  same |-> CompareFingerprints(lastOp.stored, lastOp.current),
                  stable |-> CompareStableAttributes(lastOp.stored, lastOp.current)]
    /\ UNCHANGED <<win, zorder, tick, trackingFile, phase, m_fileWindowMap,
                   launch, arrival, events>>

NextCompare == Compare

SpecCompare == InitCompare /\ [][NextCompare]_vars

-----------------------------------------------------------------------------
(* GetWindowHandleByFileName on its own: sample names on a changing desktop *)

NameATxtUpper == <<"A", ".", "T", "X", "T">>
NameBLnkMixed == <<"b", ".", "L", "n", "k">>
NameOnlyLnk == <<".", "L", "N", "K">>
NameEmpty == <<>>
NameDocLnkLnk == <<"d", "o", "c", ".", "l", "n", "k", ".", "L", "N", "K">>
NameDocUpper == <<"D", "O", "C">>

SampleNames ==
    {FileATxt, NameATxtUpper, FileBLnk, NameBLnkMixed, NameOnlyLnk, NameEmpty,
     NameDocLnkLnk, NameDocUpper}

InitMatch ==
    /\ win \in InitialDesktops
    /\ zorder = InitialOrder(win)
    /\ tick = 0
    /\ trackingFile = NoFile
    /\ phase = "constructed"
    /\ m_fileWindowMap = EmptyMap
    /\ launch = NoLaunch
    /\ arrival = NoArrival
    /\ lastOp = NoOp
    /\ events = 0

\* one call of GetWindowHandleByFileName on the desktop as it is
FindByFileName(fileName) ==
    /\ lastOp' = Op("byName", {}, fileName, "",
                    GetWindowHandleByFileName(fileName, win, zorder), NoArrival)
    /\ UNCHANGED <<win, zorder, tick, trackingFile, phase, m_fileWindowMap,
                   launch, arrival, events>>

NextMatch ==
    \/ \E h \in Hwnds, p \in Pids, k \in WindowKinds : OpenWindow(h, p, k)
    \/ \E h \in Hwnds : CloseWindow(h)
    \/ \E h \in Hwnds, t \in Titles : Retitle(h, t)
    \/ \E h \in Hwnds : RaiseWindow(h)
    \/ \E fileName \in SampleNames : FindByFileName(fileName)

SpecMatch == InitMatch /\ [][NextMatch]_vars

-----------------------------------------------------------------------------
(* WindowMonitor::EnumerateWindows on its own *)

ShowCmds == {"SW_SHOWNORMAL", "SW_SHOWMINIMIZED", "SW_SHOWMAXIMIZED", "fail"}

\* the module path GetModuleFileNameEx reports for a process
ProcessPath(pid) == <<"p">> \o FormatDword(pid)

\* WindowMonitor::GetWindowState / the placement branch of the callback
WindowStateOf(showCmd) ==
    IF showCmd = "fail" THEN "Unknown"
    ELSE IF showCmd = "SW_SHOWMINIMIZED" THEN "Minimized"
    ELSE IF showCmd = "SW_SHOWMAXIMIZED" THEN "Maximized"
    ELSE "Normal"

\* The callback leaving out a window whose process cannot be opened.
EnumWindowsCallbackDropsUnopenable(hwnd, W, showCmd, openable, foreground) ==
    IF ~IsWindowVisible(hwnd, W) \/ W[hwnd].pid \notin openable THEN <<>>
    ELSE IF Len(GetWindowText(hwnd, W)) = 0 THEN <<>>
    ELSE << [hwnd |-> hwnd, title |-> GetWindowText(hwnd, W), rect |-> W[hwnd].rect,
             state |-> WindowStateOf(showCmd),
             processId |-> GetWindowThreadProcessId(hwnd, W),
             processName |-> ProcessPath(W[hwnd].pid),
             isFocused |-> hwnd = foreground,
             className |-> GetClassName(hwnd, W)] >>

\* what one call of the callback appends to the vector
EnumWindowsCallback(hwnd, W, showCmd, openable, foreground) ==
    IF ~IsWindowVisible(hwnd, W) THEN <<>>
    ELSE IF Len(GetWindowText(hwnd, W)) = 0 THEN <<>>
    ELSE LET pid == GetWindowThreadProcessId(hwnd, W)
         IN  << [hwnd |-> hwnd,
                 title |-> GetWindowText(hwnd, W),
                 rect |-> W[hwnd].rect,
                 state |-> WindowStateOf(showCmd),
                 processId |-> pid,
                 processName |-> IF pid \in openable THEN ProcessPath(pid) ELSE <<>>,
                 isFocused |-> hwnd = foreground,
                 className |-> GetClassName(hwnd, W)] >>

RECURSIVE EnumerateWindows(_, _, _, _, _)
EnumerateWindows(W, z, showCmd, openable, foreground) ==
    IF z = <<>> THEN <<>>
    ELSE EnumWindowsCallback(Head(z), W, showCmd, openable, foreground)
             \o EnumerateWindows(W, Tail(z), showCmd, openable, foreground)

InitEnum ==
    /\ win \in InitialDesktops
    /\ zorder = InitialOrder(win)
    /\ tick = 0
    /\ trackingFile = NoFile
    /\ phase = "constructed"
    /\ m_fileWindowMap = EmptyMap
    /\ launch = NoLaunch
    /\ arrival = NoArrival
    /\ lastOp = NoOp
    /\ events = 0

\* one call of EnumerateWindows on the desktop as it is
EnumerateWindowsCall(showCmd, openable, foreground) ==
    /\ lastOp' = [op |-> "enumerate",
                  windows |-> EnumerateWindows(win, zorder, showCmd, openable,
                                               foreground),
                  openable |-> openable]
    /\ UNCHANGED <<win, zorder, tick, trackingFile, phase, m_fileWindowMap,
                   launch, arrival, events>>

NextEnum ==
    \/ \E h \in Hwnds, p \in Pids, k \in WindowKinds : OpenWindow(h, p, k)
    \/ \E h \in Hwnds : CloseWindow(h)
    \/ \E h \in Hwnds, t \in Titles : Retitle(h, t)
    \/ \E h \in Hwnds : ShowHide(h)
    \/ \E h \in Hwnds : RaiseWindow(h)
    \/ \E showCmd \in ShowCmds, openable \in SUBSET Pids,
          foreground \in Hwnds \cup {NULL} :
           EnumerateWindowsCall(showCmd, openable, foreground)

SpecEnum == InitEnum /\ [][NextEnum]_vars

-----------------------------------------------------------------------------
(* MainWindow::ShowIntegratedBrowser and BrowserPanel on their own.  The panel
   and what the WebView was asked to load are carried in lastOp. *)

UrlOne == <<"u", "1">>
UrlTwo == <<"u", "2">>
UrlThree == <<"u", "3">>
UrlFour == <<"u", "4">>
Urls == {UrlOne, UrlTwo, UrlThree, UrlFour}

\* m_browserPanel == nullptr
NoPanel == [m_hWnd |-> FALSE, environment |-> "none", controller |-> "none",
            m_controller |-> FALSE, m_webView |-> FALSE]

\* BrowserPanel::Create returning true: the child window exists and the
\* environment is being created; m_controller and m_webView are still null
PanelCreated == [m_hWnd |-> TRUE, environment |-> "pending", controller |-> "none",
                 m_controller |-> FALSE, m_webView |-> FALSE]

\* what CreateWindowEx and CreateCoreWebView2EnvironmentWithOptions return
CreateOutcomes == {"ok", "noWindow", "callFailed"}

BrowserOp(op, panel, requested, navigated, msg) ==
    [op |-> op, m_browserPanel |-> panel, requested |-> requested,
     navigated |-> navigated, msg |-> msg]

InitBrowser ==
    /\ win = EmptyMap
    /\ zorder = <<>>
    /\ tick = 0
    /\ trackingFile = NoFile
    /\ phase = "running"
    /\ m_fileWindowMap = EmptyMap
    /\ launch = NoLaunch
    /\ arrival = NoArrival
    /\ events = 0
    /\ lastOp = BrowserOp("none", NoPanel, {}, {}, "")

browserFrame == <<win, zorder, tick, trackingFile, phase, m_fileWindowMap,
                  launch, arrival, events>>


\* BrowserPanel::Navigate: ok says m_webView->Navigate(url) was called
Navigate(panel, url) ==
    IF ~panel.m_webView
    THEN [ok |-> FALSE, msg |-> "WebView not yet initialized."]
    ELSE [ok |-> TRUE, msg |-> ""]

\* MainWindow::ShowIntegratedBrowser(url); create is used when the panel has
\* to be created
ShowIntegratedBrowser(url, create) ==
    /\ LET old == lastOp.m_browserPanel
           failed == old = NoPanel /\ create # "ok"
           panel == IF old = NoPanel THEN PanelCreated ELSE old
           nav == Navigate(panel, url)
       IN  lastOp' =
               IF failed
               THEN BrowserOp("show", NoPanel, lastOp.requested, lastOp.navigated,
                              "Failed to create integrated browser panel.")
               ELSE BrowserOp("show", panel, lastOp.requested \cup {url},
                              IF nav.ok THEN lastOp.navigated \cup {url}
                              ELSE lastOp.navigated,
                              nav.msg)
    /\ UNCHANGED browserFrame

\* the environment-completed handler, called from the message loop
EnvironmentCompleted(result) ==
    /\ lastOp.m_browserPanel.environment = "pending"
    /\ lastOp' =
           IF result = "failed"
           THEN BrowserOp("environment",
                          [lastOp.m_browserPanel EXCEPT !.environment = "failed"],
                          lastOp.requested, lastOp.navigated,
                          "Failed to create WebView2 environment.")
           ELSE BrowserOp("environment",
                          [lastOp.m_browserPanel EXCEPT !.environment = "ok",
                                                        !.controller = "pending"],
                          lastOp.requested, lastOp.navigated, "")
    /\ UNCHANGED browserFrame

\* the controller-completed handler, called from the message loop
ControllerCompleted(result) ==
    /\ lastOp.m_browserPanel.controller = "pending"
    /\ lastOp' =
           IF result = "failed"
           THEN BrowserOp("controller",
                          [lastOp.m_browserPanel EXCEPT !.controller = "failed"],
                          lastOp.requested, lastOp.navigated,
                          "Failed to create WebView2 controller.")
           ELSE IF result = "noWebView"
           THEN BrowserOp("controller",
                          [lastOp.m_browserPanel EXCEPT !.controller = "noWebView",
                                                        !.m_controller = TRUE],
                          lastOp.requested, lastOp.navigated,
                          "get_CoreWebView2 returned null!")
           ELSE BrowserOp("controller",
                          [lastOp.m_browserPanel EXCEPT !.controller = "ok",
                                                        !.m_controller = TRUE,
                                                        !.m_webView = TRUE],
                          lastOp.requested, lastOp.navigated, "")
    /\ UNCHANGED browserFrame

CompletionResults == {"ok", "failed", "noWebView"}

EnvironmentCompletes == \E result \in {"ok", "failed"} : EnvironmentCompleted(result)
ControllerCompletes == \E result \in CompletionResults : ControllerCompleted(result)

NextBrowser ==
    \/ \E url \in Urls, create \in CreateOutcomes : ShowIntegratedBrowser(url, create)
    \/ EnvironmentCompletes
    \/ ControllerCompletes

\* The completion handlers are posted to the UI thread, whose message loop
\* runs as long as the program does.
SpecBrowser ==
    /\ InitBrowser /\ [][NextBrowser]_vars
    /\ WF_vars(EnvironmentCompletes) /\ WF_vars(ControllerCompletes)

-----------------------------------------------------------------------------
(* SaveTrackingMapping and the parsing of LoadTrackingMapping on their own *)

\* Names a file of PROJECT_FOLDER can have, some with a space in them.
FileMyDoc == <<"m", "y", " ", "d", "o", "c", ".", "t", "x", "t">>
FileA7 == <<"a", " ", "7">>
FileNotes == <<"n", "o", "t", "e", "s">>
StoredNames == {FileATxt, FileBLnk, FileMyDoc, FileA7, FileNotes}

\* Values of TrackedWindow::processId, a DWORD
StoredPids == {0, 1, 42, 65536}

StoredWindow(q) ==
    [processId |-> q, hwnd |-> 1, rect |-> RectHome, className |-> ClassEd,
     windowTitle |-> TitleA, failCount |-> 0, launchTime |-> 0]

\* stores of one or two entries
SampleStores ==
    { [p \in {PathOf(f)} |-> StoredWindow(q)] : f \in StoredNames, q \in StoredPids }
    \cup
    { [p \in {PathOf(f), PathOf(g)} |->
          IF p = PathOf(f) THEN StoredWindow(q) ELSE StoredWindow(r)] :
        f \in {FileATxt, FileMyDoc}, g \in {FileBLnk, FileA7},
        q \in StoredPids, r \in StoredPids }

InitSaveLoad ==
    /\ win = EmptyMap
    /\ zorder = <<>>
    /\ tick = 0
    /\ trackingFile = NoFile
    /\ phase = "running"
    /\ m_fileWindowMap \in SampleStores
    /\ launch = NoLaunch
    /\ arrival = NoArrival
    /\ lastOp = NoOp
    /\ events = 0

\* SaveTrackingMapping(TRACKING_FILE, m_fileWindowMap) with a writable file
SaveStore ==
    /\ lastOp = NoOp
    /\ trackingFile' = FileOf(SaveTrackingMapping(m_fileWindowMap))
    /\ lastOp' = [op |-> "saved", records |-> <<>>]
    /\ UNCHANGED <<win, zorder, tick, phase, m_fileWindowMap, launch, arrival,
                   events>>

\* The getline loop of LoadTrackingMapping: what iss >> filePath >> processId
\* gives for each line of the file.
ParseFile ==
    /\ lastOp.op = "saved"
    /\ lastOp' = [op |-> "parsed",
                  records |-> [i \in 1..Len(trackingFile.lines) |->
                                   ParseLine(trackingFile.lines[i])]]
    /\ UNCHANGED <<win, zorder, tick, trackingFile, phase, m_fileWindowMap,
                   launch, arrival, events>>

NextSaveLoad == SaveStore \/ ParseFile

SpecSaveLoad == InitSaveLoad /\ [][NextSaveLoad]_vars

-----------------------------------------------------------------------------
(* The window a handler has checked or looked up, and its GetFingerprint
   call, as two steps: the windows belong to other processes, which destroy
   them when they choose *)

\* The store a startup on the initial desktop leaves.
StartupStore(W) ==
    LoadTrackingMapping(FileOf(<<LineA1, LineB2>>), EmptyMap, W, InitialOrder(W), 0)

InitRace ==
    /\ win \in InitialDesktops
    /\ zorder = InitialOrder(win)
    /\ tick = 0
    /\ trackingFile = NoFile
    /\ phase = "running"
    /\ m_fileWindowMap = StartupStore(win)
    /\ launch = NoLaunch
    /\ arrival = NoArrival
    /\ lastOp = NoOp
    /\ events = 0

raceFrame == <<tick, trackingFile, phase, launch, arrival>>

\* Another process destroys one of its windows, wherever the handler stands.
WindowDestroyed(h) ==
    /\ h \in DOMAIN win
    /\ events < MaxEvents
    /\ events' = events + 1
    /\ win' = RemoveWindow(win, h)
    /\ zorder' = SelectSeq(zorder, LAMBDA x : x # h)
    /\ UNCHANGED <<raceFrame, m_fileWindowMap, lastOp>>

\* Another process creates a window.
WindowCreated(h, p, k) ==
    /\ h \in FreeHwnds
    /\ events < MaxEvents
    /\ events' = events + 1
    /\ win' = AddWindow(win, h, NewWindow(p, k))
    /\ zorder' = <<h>> \o zorder
    /\ UNCHANGED <<raceFrame, m_fileWindowMap, lastOp>>

\* The handler stands between the call that gave it hwnd and GetFingerprint.
Holding(handler, filePath, hwnd) ==
    [op |-> "holding", handler |-> handler, path |-> filePath, hwnd |-> hwnd]

\* WM_TIMER row or activation: it != end() && IsWindow(it->second.hwnd) is true
LiveCheck(handler, fileName) ==
    /\ lastOp = NoOp
    /\ HasLiveEntry(m_fileWindowMap, PathOf(fileName), win)
    /\ lastOp' = Holding(handler, PathOf(fileName),
                         m_fileWindowMap[PathOf(fileName)].hwnd)
    /\ UNCHANGED <<raceFrame, win, zorder, events, m_fileWindowMap>>

\* Activation fallback: hwndFound = GetWindowHandleByFileName(fileName) is set
TitleLookup(fileName) ==
    /\ lastOp = NoOp
    /\ ~HasLiveEntry(m_fileWindowMap, PathOf(fileName), win)
    /\ GetWindowHandleByFileName(fileName, win, zorder) # NULL
    /\ lastOp' = Holding("fallback", PathOf(fileName),
                         GetWindowHandleByFileName(fileName, win, zorder))
    /\ UNCHANGED <<raceFrame, win, zorder, events, m_fileWindowMap>>

\* LaunchFile's poll or LoadTrackingMapping: GetMainWindowHandle(pid) is set
PidLookup(handler, fileName, pid) ==
    /\ lastOp = NoOp
    /\ GetMainWindowHandle(pid, win, zorder) # NULL
    /\ lastOp' = Holding(handler, PathOf(fileName),
                         GetMainWindowHandle(pid, win, zorder))
    /\ UNCHANGED <<raceFrame, win, zorder, events, m_fileWindowMap>>

\* GetFingerprint(hwnd) on the handle held, and what the handler does with it:
\* the re-validation after a liveness check, the assignment after a lookup.
Capture(junk) ==
    /\ lastOp.op = "holding"
    /\ junk \in JunkRects(lastOp.hwnd, win)
    /\ LET fp == GetFingerprint(lastOp.hwnd, win, tick, junk)
       IN  /\ m_fileWindowMap' =
                  IF lastOp.handler \in {"timer", "activation"}
                  THEN [m_fileWindowMap EXCEPT
                           ![lastOp.path] = Revalidate(@, fp)]
                  ELSE MapPut(m_fileWindowMap, lastOp.path, fp)
           /\ lastOp' = [op |-> "captured", handler |-> lastOp.handler,
                         path |-> lastOp.path, hwnd |-> lastOp.hwnd,
                         fp |-> fp, live |-> IsWindow(lastOp.hwnd, win)]
    /\ UNCHANGED <<raceFrame, win, zorder, events>>

\* The handler returns to the message loop.
HandlerReturns ==
    /\ lastOp.op = "captured"
    /\ lastOp' = NoOp
    /\ UNCHANGED <<raceFrame, win, zorder, events, m_fileWindowMap>>

NextRace ==
    \/ \E h \in Hwnds : WindowDestroyed(h)
    \/ \E h \in Hwnds, p \in Pids, k \in WindowKinds : WindowCreated(h, p, k)
    \/ \E handler \in {"timer", "activation"}, f \in FolderFiles :
           LiveCheck(handler, f)
    \/ \E f \in FolderFiles : TitleLookup(f)
    \/ \E handler \in {"launch", "load"}, f \in FolderFiles, p \in Pids :
           PidLookup(handler, f, p)
    \/ \E junk \in Rects : Capture(junk)
    \/ HandlerReturns

SpecRace == InitRace /\ [][NextRace]_vars

-----------------------------------------------------------------------------
(* The life of the BrowserPanel to the end of the program: wWinMain's loop
   ends and MainWindow's destructor destroys the panel *)

\* The message loop is running, which is not the case in every state.
DispatchingAlways == TRUE

\* while (GetMessage(...)) DispatchMessage(...): window messages and the
\* WebView2 completion handlers are called from this loop only
Dispatching == phase = "running"

\* BrowserPanel::Destroy: the references and the child window are dropped;
\* the creation Create started is not cancelled
Destroy(panel) ==
    [panel EXCEPT !.m_controller = FALSE, !.m_webView = FALSE, !.m_hWnd = FALSE]

\* GetMessage returns 0 for WM_QUIT and wWinMain leaves its loop
LoopEnds ==
    /\ phase = "running"
    /\ phase' = "exited"
    /\ UNCHANGED <<win, zorder, tick, trackingFile, m_fileWindowMap, launch,
                   arrival, events, lastOp>>

\* MainWindow::~MainWindow at wWinMain's return: Destroy, delete (whose
\* destructor calls Destroy again), m_browserPanel = nullptr.  The record of
\* the destroyed panel is kept in lastOp.
MainWindowDestructor ==
    /\ phase = "exited"
    /\ lastOp.op # "destructed"
    /\ lastOp' = BrowserOp("destructed",
                           IF lastOp.m_browserPanel = NoPanel THEN NoPanel
                           ELSE Destroy(Destroy(lastOp.m_browserPanel)),
                           lastOp.requested, lastOp.navigated, "")
    /\ UNCHANGED browserFrame

NextPanel ==
    \/ \E url \in Urls, create \in CreateOutcomes :
           Dispatching /\ ShowIntegratedBrowser(url, create)
    \/ Dispatching /\ EnvironmentCompletes
    \/ Dispatching /\ ControllerCompletes
    \/ LoopEnds
    \/ MainWindowDestructor

SpecPanel == InitBrowser /\ [][NextPanel]_vars

-----------------------------------------------------------------------------
(* The launcher buttons on their own: the check boxes of the two lists,
   RefreshLauncherButtons and the WM_COMMAND of a button.  m_launcherMap,
   m_fileButtons and m_launcherButtonMap are carried in lastOp. *)

MAX_LAUNCHER_BUTTONS == 5
ID_LAUNCHER_BUTTON_BASE == 3000
ID_CLOSE_WINDOW == 2001

\* The files of PROJECT_FOLDER, more of them than there can be buttons.
FileD == <<"d">>
FileE == <<"e">>
FileF == <<"f">>
FileG == <<"g">>
LauncherFiles == FolderFiles \cup {FileD, FileE, FileF, FileG}

\* Every entry counts as marked.
MarkedAlways(launcherMap, filePath) == TRUE

\* if (entry.second)
Marked(launcherMap, filePath) == launcherMap[filePath]

\* The loop of RefreshLauncherButtons over m_launcherMap in key order, from
\* the maps cleared before it.  fails: the button indexes at which
\* CreateWindowEx returns NULL.
RECURSIVE RefreshRows(_, _, _, _, _, _)
RefreshRows(keys, launcherMap, buttonIndex, fails, fileButtons, launcherButtonMap) ==
    IF keys = <<>>
    THEN [m_fileButtons |-> fileButtons, m_launcherButtonMap |-> launcherButtonMap]
    ELSE IF ~Marked(launcherMap, Head(keys))
    THEN RefreshRows(Tail(keys), launcherMap, buttonIndex, fails, fileButtons,
                     launcherButtonMap)
    ELSE IF buttonIndex >= MAX_LAUNCHER_BUTTONS
    THEN [m_fileButtons |-> fileButtons, m_launcherButtonMap |-> launcherButtonMap]
    ELSE LET filePath == Head(keys)
             ctrlId == ID_LAUNCHER_BUTTON_BASE + buttonIndex
             hButton == IF buttonIndex \in fails THEN NULL ELSE buttonIndex + 1
         IN  IF hButton # NULL
             THEN RefreshRows(Tail(keys), launcherMap, buttonIndex + 1, fails,
                      [p \in DOMAIN fileButtons \cup {filePath} |->
                          IF p = filePath THEN hButton ELSE fileButtons[p]],
                      [i \in DOMAIN launcherButtonMap \cup {ctrlId} |->
                          IF i = ctrlId THEN filePath ELSE launcherButtonMap[i]])
             ELSE RefreshRows(Tail(keys), launcherMap, buttonIndex + 1, fails,
                      fileButtons, launcherButtonMap)

\* The order in which a std::map keyed by path holds the paths of the folder.
LauncherPathOrder == SortedKeys({PathOf(f) : f \in LauncherFiles})

RefreshLauncherButtons(launcherMap, fails) ==
    RefreshRows(SelectSeq(LauncherPathOrder, LAMBDA p : p \in DOMAIN launcherMap),
                launcherMap, 0, fails, EmptyMap, EmptyMap)

\* CreateWindowEx succeeds for every button, or fails for the second.
CreateFailures == {{}, {1}}

LauncherOp(op, launcherMap, buttons, wmId, filePath) ==
    [op |-> op, m_launcherMap |-> launcherMap,
     m_fileButtons |-> buttons.m_fileButtons,
     m_launcherButtonMap |-> buttons.m_launcherButtonMap,
     wmId |-> wmId, filePath |-> filePath]

NoButtons == [m_fileButtons |-> EmptyMap, m_launcherButtonMap |-> EmptyMap]

InitLauncher ==
    /\ win = EmptyMap
    /\ zorder = <<>>
    /\ tick = 0
    /\ trackingFile = NoFile
    /\ phase = "running"
    /\ m_fileWindowMap = EmptyMap
    /\ launch = NoLaunch
    /\ arrival = NoArrival
    /\ events = 0
    /\ lastOp = LauncherOp("none", EmptyMap, NoButtons, 0, <<>>)

\* LVN_ITEMCHANGED of a check box in the File Tracking list or the CLI list:
\* m_launcherMap[filePath] = (checked != 0); RefreshLauncherButtons();
ItemChanged(fileName, checked, fails) ==
    /\ LET launcherMap == MapPut(lastOp.m_launcherMap, PathOf(fileName), checked)
       IN  lastOp' = LauncherOp("itemChanged", launcherMap,
                                RefreshLauncherButtons(launcherMap, fails),
                                0, <<>>)
    /\ UNCHANGED browserFrame

\* The control ids WM_COMMAND arrives with.
CommandIds ==
    {ID_CLOSE_WINDOW,
     ID_LAUNCHER_BUTTON_BASE,
     ID_LAUNCHER_BUTTON_BASE + MAX_LAUNCHER_BUTTONS - 1,
     ID_LAUNCHER_BUTTON_BASE + MAX_LAUNCHER_BUTTONS}

\* WM_COMMAND up to the point where the handler has its filePath: the id is
\* tested against the range and looked up in m_launcherButtonMap.  With that
\* path the handler goes on as LauncherButton does.
LauncherCommand(wmId) ==
    /\ LET inRange == /\ wmId >= ID_LAUNCHER_BUTTON_BASE
                      /\ wmId < ID_LAUNCHER_BUTTON_BASE + MAX_LAUNCHER_BUTTONS
           mapped == inRange /\ wmId \in DOMAIN lastOp.m_launcherButtonMap
       IN  lastOp' = [lastOp EXCEPT
                         !.op = IF mapped THEN "launcher" ELSE "command",
                         !.wmId = wmId,
                         !.filePath = IF mapped
                                      THEN lastOp.m_launcherButtonMap[wmId]
                                      ELSE <<>>]
    /\ UNCHANGED browserFrame

NextLauncher ==
    \/ \E f \in LauncherFiles, checked \in BOOLEAN, fails \in CreateFailures :
           ItemChanged(f, checked, fails)
    \/ \E wmId \in CommandIds : LauncherCommand(wmId)

SpecLauncher == InitLauncher /\ [][NextLauncher]_vars

-----------------------------------------------------------------------------
(* Properties *)

\* The handler that ran last resolved files: a timer tick or an activation.
Resolving == lastOp.op \in {"timer", "activate", "launchCall"}

\* The step in which LaunchFile returns from its poll loop.
LaunchReturns == phase = "launching" /\ phase' = "running"

\* The file name of a tracked path, lower-cased and without .lnk, as the
\* title search is specified to use it.
Stem(path) ==
    IF path = PathOf(FileATxt) THEN <<"a", ".", "t", "x", "t">>
    ELSE IF path = PathOf(FileBLnk) THEN <<"b">>
    ELSE <<"c", ".", "u", "r", "l">>

TitleHas(h, stem) == Contains(ToLower(win[h].title), stem)

OwnsVisibleWindow(pid) ==
    \E h \in DOMAIN win : win[h].visible /\ win[h].pid = pid

\* C1: a window of the launched process that first appears strictly before
\* the 1000 ms ceiling of the poll (and is still there when LaunchFile
\* returns) has been captured: the launched path is a key of the store and
\* its entry holds a visible window of the launched process.
C1_WindowBeforeCeilingIsCaptured ==
    ( /\ lastOp.op = "launchReturn"
      /\ lastOp.arr.hwnd # NULL
      /\ lastOp.arr.at < maxPollTime
      /\ IsWindowVisible(lastOp.arr.hwnd, win)
      /\ win[lastOp.arr.hwnd].pid = lastOp.arr.pid )
    => /\ lastOp.path \in DOMAIN m_fileWindowMap
       /\ IsWindowVisible(m_fileWindowMap[lastOp.path].hwnd, win)
       /\ win[m_fileWindowMap[lastOp.path].hwnd].pid = lastOp.arr.pid
       /\ lastOp.found # NULL

\* C2: a timer tick or an activation that re-validates an entry whose handle
\* is live, whose stable attributes still match and whose window has another
\* title than the stored one leaves the stored title equal to the window's
\* title, and the stored handle and processId as they were.
C2_RevalidationRefreshesTitle ==
    [][ \A f \in FolderFiles :
          LET path == PathOf(f)
              hwnd == m_fileWindowMap[path].hwnd
          IN  ( /\ InLoop
                /\ \/ lastOp'.op = "timer"
                   \/ lastOp'.op = "activate" /\ lastOp'.path = path
                /\ HasLiveEntry(m_fileWindowMap, path, win)
                /\ CompareStableAttributes(m_fileWindowMap[path],
                       GetFingerprint(hwnd, win, tick, RectHome))
                /\ m_fileWindowMap[path].windowTitle # GetWindowText(hwnd, win) )
              => /\ m_fileWindowMap'[path].windowTitle = GetWindowText(hwnd, win')
                 /\ m_fileWindowMap'[path].hwnd = hwnd
                 /\ m_fileWindowMap'[path].processId = m_fileWindowMap[path].processId
      ]_vars

\* C3: in every resolution of a file by a timer tick or an activation, a
\* stored handle that is no live window is not fingerprinted, the stable
\* attributes are not compared, and GetWindowHandleByFileName is called.
C3_DeadHandleFallsThroughToTitleSearch ==
    Resolving =>
        \A c \in lastOp.calls :
            ~c.storedLive =>
                /\ ~c.csa
                /\ c.byName
                /\ c.hadEntry => c.fpOn # c.storedHwnd

C3_Witness ==
    /\ Resolving
    /\ \E c \in lastOp.calls :
           c.hadEntry /\ ~c.storedLive /\ c.byName /\ c.found # NULL

\* C4: when a launch has just recorded its window and every tracked window
\* is live and visible, saving the store and loading what was saved into an
\* empty store, against the same windows, gives the keys the store had.
C4_RoundTripKeepsKeys ==
    ( /\ lastOp.op = "launchReturn"
      /\ lastOp.found # NULL
      /\ \A path \in DOMAIN m_fileWindowMap :
             IsWindowVisible(m_fileWindowMap[path].hwnd, win) )
    => DOMAIN LoadTrackingMapping(FileOf(SaveTrackingMapping(m_fileWindowMap)),
                                  EmptyMap, win, zorder, tick)
       = DOMAIN m_fileWindowMap

\* C5: after loading into the empty store, the path of a record whose
\* processId owns no visible window and whose stem no window's title
\* contains is not a key.
C5_UnresolvedRecordIsAbsent ==
    lastOp.op = "create" =>
        \A recs \in LoadRecordSeqs :
            trackingFile = RecordsFile(recs) =>
                \A i \in 1..Len(recs) :
                    ( /\ ~OwnsVisibleWindow(recs[i].pid)
                      /\ \A h \in DOMAIN win : ~TitleHas(h, Stem(recs[i].path)) )
                    => recs[i].path \notin DOMAIN m_fileWindowMap

C5_Witness ==
    /\ lastOp.op = "create"
    /\ DOMAIN win # {}
    /\ \E recs \in LoadRecordSeqs :
           /\ trackingFile = RecordsFile(recs)
           /\ \E i, j \in 1..Len(recs) :
                  /\ recs[i].path \notin DOMAIN m_fileWindowMap
                  /\ recs[j].path \in DOMAIN m_fileWindowMap

\* C6: after loading, the entry of a record is the fingerprint of the first
\* visible window of its processId in enumeration order when there is one,
\* and otherwise that of the first window whose title contains the stem of
\* its path when there is one.
C6_PidLookupThenTitleFallback ==
    lastOp.op = "create" =>
        \A recs \in LoadRecordSeqs :
            trackingFile = RecordsFile(recs) =>
                \A i \in 1..Len(recs) :
                    LET r == recs[i]
                        owned == {h \in DOMAIN win :
                                     win[h].visible /\ win[h].pid = r.pid}
                        named == {h \in DOMAIN win : TitleHas(h, Stem(r.path))}
                        byPid == FirstInOrder(zorder, owned)
                        byTitle == FirstInOrder(zorder, named)
                        expected == IF byPid # NULL THEN byPid ELSE byTitle
                    IN  expected # NULL =>
                            /\ r.path \in DOMAIN m_fileWindowMap
                            /\ m_fileWindowMap[r.path] =
                                   GetFingerprint(expected, win, tick, RectHome)

\* a record resolved through its processId although a window earlier in the
\* enumeration order carries the file name, and a record resolved by title
C6_Witness ==
    /\ lastOp.op = "create"
    /\ \E recs \in LoadRecordSeqs :
           /\ trackingFile = RecordsFile(recs)
           /\ \E i \in 1..Len(recs) :
                  LET r == recs[i]
                      named == {h \in DOMAIN win : TitleHas(h, Stem(r.path))}
                      byTitle == FirstInOrder(zorder, named)
                  IN  /\ r.path \in DOMAIN m_fileWindowMap
                      /\ byTitle # NULL
                      /\ m_fileWindowMap[r.path].hwnd # byTitle
                      /\ win[m_fileWindowMap[r.path].hwnd].pid = r.pid
           /\ \E j \in 1..Len(recs) :
                  /\ recs[j].path \in DOMAIN m_fileWindowMap
                  /\ win[m_fileWindowMap[recs[j].path].hwnd].pid # recs[j].pid

\* C7: the step of LaunchFile in which ShellExecuteExW fails leaves the store
\* as it was when LaunchFile was called, shows the error message and returns
\* without entering the poll loop.
C7_FailedShellOpenChangesNothing ==
    [][ (\E in \in LaunchInputs :
             in[1] = "fail" /\ LaunchFileCall(in[1], in[2], in[3], in[4], in[5]))
        => /\ m_fileWindowMap' = m_fileWindowMap
           /\ m_fileWindowMap' = launch.mapAtCall
           /\ lastOp'.msg = "Failed to launch file."
           /\ phase' = "running"
      ]_vars

C7_Witness ==
    /\ lastOp.op = "launchFailed"
    /\ lastOp.msg = "Failed to launch file."
    /\ phase = "running"
    /\ m_fileWindowMap # EmptyMap

\* C8: when LaunchFile returns from its poll loop without a window, the store
\* is what it was when LaunchFile was called.
C8_PollWithoutWindowChangesNothing ==
    [][ (LaunchReturns /\ lastOp'.found = NULL)
        => /\ m_fileWindowMap' = launch.mapAtCall
           /\ m_fileWindowMap' = m_fileWindowMap
      ]_vars

C8_Witness ==
    /\ lastOp.op = "launchReturn"
    /\ lastOp.found = NULL
    /\ \E c \in lastOp.calls :
           /\ c.hadEntry
           /\ m_fileWindowMap[c.path].hwnd = c.storedHwnd
    /\ \E path \in {PathOf(f) : f \in FolderFiles} : path \notin DOMAIN m_fileWindowMap

\* C9: when LaunchFile returns with a window, the entry of the launched path
\* is the fingerprint of that window, whatever the entry was before, and
\* every other entry is what it was when LaunchFile was called.
C9_LaunchRecordsFingerprint ==
    [][ (LaunchReturns /\ lastOp'.found # NULL)
        => /\ DOMAIN m_fileWindowMap' =
                  DOMAIN launch.mapAtCall \cup {launch.filePath}
           /\ m_fileWindowMap'[launch.filePath] =
                  GetFingerprint(lastOp'.found, win', tick', RectHome)
           /\ IsWindowVisible(lastOp'.found, win')
           /\ win'[lastOp'.found].pid = GetProcessId(launch.hProcess)
           /\ \A path \in DOMAIN launch.mapAtCall \ {launch.filePath} :
                  m_fileWindowMap'[path] = launch.mapAtCall[path]
      ]_vars

C9_Witness ==
    /\ lastOp.op = "launchReturn"
    /\ lastOp.found # NULL
    /\ \E c \in lastOp.calls :
           /\ c.hadEntry
           /\ m_fileWindowMap[c.path].hwnd = lastOp.found
    /\ \E path \in DOMAIN m_fileWindowMap : path # lastOp.path

\* C10: no step removes a key from the store.
C10_KeysNeverShrink ==
    [][DOMAIN m_fileWindowMap \subseteq DOMAIN m_fileWindowMap']_vars

C10_Witness ==
    /\ lastOp.op = "timer"
    /\ \E c \in lastOp.calls :
           /\ c.hadEntry
           /\ ~c.storedLive
           /\ c.found = NULL
           /\ c.path \in DOMAIN m_fileWindowMap

\* C11 as stated: a step that adds a key to the store is the load at
\* WM_CREATE or the return of LaunchFile with a window.
C11_KeysOnlyFromLoadOrLaunch ==
    [][ DOMAIN m_fileWindowMap' # DOMAIN m_fileWindowMap
        => \/ phase = "constructed"
           \/ LaunchReturns /\ lastOp'.found # NULL
      ]_vars

\* C11, amended: a step that adds a key is the load at WM_CREATE, the return
\* of LaunchFile with a window, or an activation whose title search found a
\* window for a file that had no live entry; the key added by either of the
\* last two is the path of the file activated or launched.  A timer tick
\* adds no key.
C11_KeysFromLoadLaunchOrActivation ==
    [][ DOMAIN m_fileWindowMap' # DOMAIN m_fileWindowMap
        => \/ phase = "constructed" /\ lastOp'.op = "create"
           \/ /\ LaunchReturns /\ lastOp'.found # NULL
              /\ DOMAIN m_fileWindowMap' = DOMAIN m_fileWindowMap \cup {launch.filePath}
           \/ /\ lastOp'.op = "activate"
              /\ \E c \in lastOp'.calls : ~c.storedLive /\ c.byName /\ c.found # NULL
              /\ DOMAIN m_fileWindowMap' = DOMAIN m_fileWindowMap \cup {lastOp'.path}
      ]_vars

\* an activation has just inserted the key of a file it found by its title
C11_Witness ==
    /\ lastOp.op = "activate"
    /\ \E c \in lastOp.calls :
           ~c.hadEntry /\ c.found # NULL /\ c.path \in DOMAIN m_fileWindowMap

\* C12: a stored handle that a handler fingerprinted, compared, activated or
\* posted WM_CLOSE to was found to be a live window by that handler, and is
\* one when the handler returns.
C12_StoredHandleUsedOnlyWhenLive ==
    /\ Resolving =>
           \A c \in lastOp.calls :
               (c.hadEntry /\ (c.csa \/ c.fpOn = c.storedHwnd \/ c.found = c.storedHwnd))
               => c.storedLive /\ IsWindow(c.storedHwnd, win)
    /\ (lastOp.op \in {"activate", "closeCommand"} /\ lastOp.found # NULL)
           => IsWindow(lastOp.found, win)

\* Close Window on a row whose stored handle is stale posts nothing
C12_Witness ==
    /\ lastOp.op = "closeCommand"
    /\ lastOp.path \in DOMAIN m_fileWindowMap
    /\ ~IsWindow(m_fileWindowMap[lastOp.path].hwnd, win)
    /\ lastOp.found = NULL

\* the title with its letters in lower case, read off the sample titles
FoldTitle(t) == IF t = TitleA THEN TitleALower ELSE t

\* a fingerprint reduced to its process id and class name
StableFields(tw) ==
    [processId |-> tw.processId, hwnd |-> NULL, rect |-> RectHome,
     className |-> tw.className, windowTitle |-> TitleEmpty, failCount |-> 0,
     launchTime |-> 0]

\* C13: CompareStableAttributes answers true exactly when the process ids and
\* the class names are equal; its answer is the one it gives for the pair
\* reduced to those two fields, so rect, title, handle, failure counter and
\* launch time do not enter; every fingerprint is stable-equal to itself.
C13_StableIsPidAndClass ==
    lastOp.op = "compared" =>
        /\ lastOp.stable = (/\ lastOp.stored.processId = lastOp.current.processId
                            /\ lastOp.stored.className = lastOp.current.className)
        /\ lastOp.stable = CompareStableAttributes(StableFields(lastOp.stored),
                                                   StableFields(lastOp.current))
        /\ CompareStableAttributes(lastOp.stored, lastOp.stored)
        /\ CompareStableAttributes(lastOp.current, lastOp.current)

\* a pair that is stable-equal although every other field differs
C13_Witness ==
    /\ lastOp.op = "compared"
    /\ lastOp.stable
    /\ lastOp.stored.rect # lastOp.current.rect
    /\ FoldTitle(lastOp.stored.windowTitle) # FoldTitle(lastOp.current.windowTitle)
    /\ lastOp.stored.hwnd # lastOp.current.hwnd
    /\ lastOp.stored.failCount # lastOp.current.failCount
    /\ lastOp.stored.launchTime # lastOp.current.launchTime

\* C14: a pair that CompareFingerprints accepts is accepted by
\* CompareStableAttributes.
C14_StrictImpliesStable ==
    lastOp.op = "compared" => (lastOp.same => lastOp.stable)

\* the converse fails: a stable-equal pair that the strict comparison rejects,
\* one for the rect and one for the title
C14_Witness ==
    /\ lastOp.op = "compared"
    /\ lastOp.stable /\ ~lastOp.same
    /\ \/ /\ lastOp.stored.rect # lastOp.current.rect
          /\ lastOp.stored.windowTitle = lastOp.current.windowTitle
       \/ /\ lastOp.stored.rect = lastOp.current.rect
          /\ FoldTitle(lastOp.stored.windowTitle) # FoldTitle(lastOp.current.windowTitle)

\* C15: CompareFingerprints answers true exactly when the process ids, the
\* class names and each of the four rect edges are equal and the titles are
\* equal once their letters are in lower case.
C15_StrictIsAllFieldsTitleFolded ==
    lastOp.op = "compared" =>
        lastOp.same =
            (/\ lastOp.stored.processId = lastOp.current.processId
             /\ lastOp.stored.className = lastOp.current.className
             /\ lastOp.stored.rect.left = lastOp.current.rect.left
             /\ lastOp.stored.rect.top = lastOp.current.rect.top
             /\ lastOp.stored.rect.right = lastOp.current.rect.right
             /\ lastOp.stored.rect.bottom = lastOp.current.rect.bottom
             /\ FoldTitle(lastOp.stored.windowTitle)
                    = FoldTitle(lastOp.current.windowTitle))

\* titles that differ only in letter case compare equal
C15_Witness ==
    /\ lastOp.op = "compared"
    /\ lastOp.same
    /\ lastOp.stored.windowTitle # lastOp.current.windowTitle

\* what is left of each sample name once it is in lower case and one trailing
\* ".lnk" is removed
SampleStem(fileName) ==
    CASE fileName = FileATxt -> <<"a", ".", "t", "x", "t">>
      [] fileName = NameATxtUpper -> <<"a", ".", "t", "x", "t">>
      [] fileName = FileBLnk -> <<"b">>
      [] fileName = NameBLnkMixed -> <<"b">>
      [] fileName = NameOnlyLnk -> <<>>
      [] fileName = NameEmpty -> <<>>
      [] fileName = NameDocLnkLnk -> <<"d", "o", "c", ".", "l", "n", "k">>
      [] fileName = NameDocUpper -> <<"d", "o", "c">>

\* the windows whose lower-cased title contains the stem of the name
StemHits(fileName) ==
    {h \in DOMAIN win :
        /\ SampleStem(fileName) # <<>>
        /\ Contains(FoldTitle(win[h].title), SampleStem(fileName))}

\* C16: a window matches a file name exactly when its title in lower case
\* contains the name in lower case with one trailing ".lnk" removed, in
\* whatever letter case the extension was written; a name that is empty
\* once stripped matches no window and the search returns null.
C16_MatchIsCaseInsensitiveOnStem ==
    lastOp.op = "byName" =>
        /\ \A h \in DOMAIN win :
               EnumProcFile(h, lastOp.path, win) = (h \in StemHits(lastOp.path))
        /\ (lastOp.found # NULL) = (StemHits(lastOp.path) # {})
        /\ SampleStem(lastOp.path) = <<>> => lastOp.found = NULL

\* "b.Lnk" has found the window titled "b a.txt"
C16_Witness ==
    /\ lastOp.op = "byName"
    /\ lastOp.path = NameBLnkMixed
    /\ lastOp.found # NULL
    /\ win[lastOp.found].title = TitleBoth

\* C17: GetWindowHandleByFileName returns the first window of the enumeration
\* order whose title matches and null when none matches; no window that
\* precedes the returned one matches.
C17_FirstMatchInEnumerationOrder ==
    lastOp.op = "byName" =>
        LET hits == {h \in DOMAIN win : EnumProcFile(h, lastOp.path, win)}
        IN  /\ hits = {} => lastOp.found = NULL
            /\ hits # {} =>
                   \E i \in 1..Len(zorder) :
                       /\ zorder[i] = lastOp.found
                       /\ zorder[i] \in hits
                       /\ \A j \in 1..(i - 1) : zorder[j] \notin hits

\* two windows match and the one enumerated first was returned
C17_Witness ==
    /\ lastOp.op = "byName"
    /\ lastOp.found # NULL
    /\ \E i, j \in 1..Len(zorder) :
           /\ i < j
           /\ zorder[i] = lastOp.found
           /\ EnumProcFile(zorder[j], lastOp.path, win)

\* the decimal digits of the small process ids
PidDigits(n) ==
    CASE n = 0 -> <<"0">>
      [] n = 1 -> <<"1">>
      [] n = 2 -> <<"2">>
      [] n = 3 -> <<"3">>

\* C18: the file written at WM_DESTROY has as many lines as the store has
\* entries, and for each entry, stale or not, exactly one line made of its
\* path, a tab and the decimal digits of its stored process id and nothing
\* more; after the load at WM_CREATE every entry holds the title, rect and
\* class name of a window that is live at that moment.
C18_SaveWritesPathTabPid ==
    /\ lastOp.op = "destroy" =>
           /\ trackingFile.exists
           /\ Len(trackingFile.lines) = Cardinality(DOMAIN m_fileWindowMap)
           /\ \A p \in DOMAIN m_fileWindowMap :
                  Cardinality({i \in 1..Len(trackingFile.lines) :
                                  trackingFile.lines[i] =
                                      p \o <<"\t">>
                                        \o PidDigits(m_fileWindowMap[p].processId)}) = 1
    /\ lastOp.op = "create" =>
           \A p \in DOMAIN m_fileWindowMap :
               LET tw == m_fileWindowMap[p]
               IN  /\ IsWindow(tw.hwnd, win)
                   /\ tw.windowTitle = win[tw.hwnd].title
                   /\ tw.rect = win[tw.hwnd].rect
                   /\ tw.className = win[tw.hwnd].cls

\* the store written at WM_DESTROY holds an entry whose window is gone
C18_Witness ==
    /\ lastOp.op = "destroy"
    /\ trackingFile.lines # <<>>
    /\ \E p \in DOMAIN m_fileWindowMap : ~IsWindow(m_fileWindowMap[p].hwnd, win)

\* the well-formed lines of a file, in file order
WellFormedLines(lines) == SelectSeq(lines, LAMBDA l : l \notin MalformedLines)

\* C19: a line from which a path and a numeric process id cannot both be
\* read changes no entry of the store, and the lines after it are processed:
\* the store after the load is the one that the file's well-formed lines
\* alone produce.
C19_MalformedLineIsSkipped ==
    /\ \A l \in MalformedLines :
           LoadLine(m_fileWindowMap, l, win, zorder, tick) = m_fileWindowMap
    /\ (lastOp.op = "create" /\ trackingFile.lines \in MalformedFiles) =>
           m_fileWindowMap =
               LoadTrackingMapping(FileOf(WellFormedLines(trackingFile.lines)),
                                   EmptyMap, win, zorder, tick)

\* a file whose first line has no process id was loaded, and the record of
\* its second line is in the store
C19_Witness ==
    /\ lastOp.op = "create"
    /\ trackingFile.lines = <<LinePathOnly, LineB2>>
    /\ PathOf(FileBLnk) \in DOMAIN m_fileWindowMap

\* C20: when tracking.dat cannot be opened, WM_CREATE leaves the store as it
\* was and the program runs, WM_DESTROY leaves the file as it was and the
\* program exits, and neither shows a message.
C20_UnopenableFileIsSilent ==
    [][ /\ lastOp'.op = "createNoFile" =>
               /\ m_fileWindowMap' = m_fileWindowMap
               /\ phase' = "running"
               /\ lastOp'.msg = ""
        /\ lastOp'.op = "destroyNoFile" =>
               /\ trackingFile' = trackingFile
               /\ phase' = "exited"
               /\ lastOp'.msg = ""
      ]_vars

\* the program has exited with entries in its store and tracking.dat as it
\* was at startup
C20_Witness ==
    /\ lastOp.op = "destroyNoFile"
    /\ phase = "exited"
    /\ m_fileWindowMap # EmptyMap
    /\ trackingFile \in InitialFiles

\* C21: the processId of the fingerprint that a launch has just recorded is
\* the id of the process owning the recorded window, which is the id
\* LaunchFile polled for.
C21_FingerprintHasOwnerPid ==
    (lastOp.op = "launchReturn" /\ lastOp.found # NULL) =>
        /\ lastOp.path \in DOMAIN m_fileWindowMap
        /\ m_fileWindowMap[lastOp.path].processId
               = GetWindowThreadProcessId(lastOp.found, win)
        /\ m_fileWindowMap[lastOp.path].processId = lastOp.arr.pid

\* the windows EnumerateWindows is to report
Reportable == {h \in DOMAIN win : win[h].visible /\ win[h].title # <<>>}

\* the place of a window in the enumeration order
PlaceOf(h) == CHOOSE i \in 1..Len(zorder) : zorder[i] = h

\* C22: the vector EnumerateWindows returns holds exactly one WindowInfo for
\* each top-level window that is visible and has a non-empty title, in the
\* order of the enumeration, and nothing else; a window whose process cannot
\* be opened is there with an empty processName.
C22_EnumerateVisibleTitledInOrder ==
    lastOp.op = "enumerate" =>
        LET ws == lastOp.windows
        IN  /\ \A i \in 1..Len(ws) : ws[i].hwnd \in Reportable
            /\ \A h \in Reportable :
                   Cardinality({i \in 1..Len(ws) : ws[i].hwnd = h}) = 1
            /\ \A i, j \in 1..Len(ws) :
                   i < j => PlaceOf(ws[i].hwnd) < PlaceOf(ws[j].hwnd)
            /\ \A i \in 1..Len(ws) :
                   /\ ws[i].title = win[ws[i].hwnd].title
                   /\ win[ws[i].hwnd].pid \notin lastOp.openable
                          => ws[i].processName = <<>>

\* a window whose process could not be opened was reported, an invisible
\* window was not
C22_Witness ==
    /\ lastOp.op = "enumerate"
    /\ \E i \in 1..Len(lastOp.windows) :
           /\ lastOp.windows[i].processName = <<>>
           /\ lastOp.windows[i].processId \notin lastOp.openable
    /\ \E h \in DOMAIN win : ~win[h].visible

\* C23: every TrackedWindow in the store has failCount 0.
C23_FailCountStaysZero ==
    \A p \in DOMAIN m_fileWindowMap : m_fileWindowMap[p].failCount = 0

\* a timer tick has just failed to resolve a file whose stored handle is dead
C23_Witness ==
    /\ lastOp.op = "timer"
    /\ \E c \in lastOp.calls :
           /\ c.hadEntry /\ ~c.storedLive /\ c.found = NULL
           /\ m_fileWindowMap[c.path].failCount = 0

\* the window LaunchFile's lookup finds now
PolledNow == GetMainWindowHandle(GetProcessId(launch.hProcess), win, zorder)

\* C24: while LaunchFile polls, the time slept is 0, 250, 500 or 750 ms at
\* each lookup, so there are at most four; the only steps of the program are
\* the loop's own, which leave the store alone until the return; a lookup
\* that finds a window ends the loop with that window; a return without a
\* window comes after 1000 ms of sleeping; and the loop always ends.
C24_PollLoopTerminates ==
    /\ [](phase = "launching" =>
              \E n \in 0..3 : launch.elapsed = n * pollInterval)
    /\ [][ phase = "launching" =>
              /\ phase' \in {"launching", "running"}
              /\ lastOp'.op \in {"none", "launchReturn"}
              /\ phase' = "launching" =>
                     /\ m_fileWindowMap' = m_fileWindowMap
                     /\ launch'.elapsed \in {launch.elapsed,
                                             launch.elapsed + pollInterval}
              /\ (PolledNow # NULL /\ launch' # launch) =>
                     phase' = "running" /\ lastOp'.found = PolledNow
              /\ (phase' = "running" /\ lastOp'.found = NULL) =>
                     launch.elapsed + pollInterval = maxPollTime
         ]_vars
    /\ (phase = "launching" ~> phase = "running")

\* LaunchFile has returned without a window for a process it started
C24_Witness ==
    /\ lastOp.op = "launchReturn"
    /\ lastOp.found = NULL
    /\ lastOp.arr.pid # 0

\* the handler that runs in this step is an activation that reached the
\* normal logic for the file
ActivationOf(path) ==
    /\ InLoop
    /\ lastOp'.op \in {"activate", "launchCall"}
    /\ lastOp'.path = path

\* C25: an activation of a file whose stored handle is dead, while a live
\* window's title contains the file's stripped base name, stores a fresh
\* fingerprint of that window under the file's path, brings that window to
\* the front and starts no launch; and every timer tick that finds the
\* stored handle of a file live resolves the file to that window, so its
\* status is the window's state and not "Not launched".
C25_StaleHandleRecoversOnActivation ==
    /\ [][ \A f \in FolderFiles :
             LET path == PathOf(f)
                 hit == GetWindowHandleByFileName(f, win, zorder)
             IN  ( /\ ActivationOf(path)
                   /\ path \in DOMAIN m_fileWindowMap
                   /\ ~IsWindow(m_fileWindowMap[path].hwnd, win)
                   /\ hit # NULL )
                 => /\ lastOp'.op = "activate"
                    /\ lastOp'.found = hit
                    /\ m_fileWindowMap'[path] = GetFingerprint(hit, win, tick, RectHome)
                    /\ zorder'[1] = hit
                    /\ phase' = "running"
                    /\ launch' = launch
         ]_vars
    /\ [][ (InLoop /\ lastOp'.op = "timer") =>
             \A c \in lastOp'.calls :
                 c.storedLive => c.found # NULL /\ c.found = c.storedHwnd
         ]_vars

\* an activation has just replaced a dead stored handle by the window it
\* found by title
C25_Witness ==
    /\ lastOp.op = "activate"
    /\ \E c \in lastOp.calls :
           /\ c.hadEntry /\ ~c.storedLive /\ c.found # NULL
           /\ m_fileWindowMap[c.path].hwnd = c.found
           /\ IsWindow(c.found, win)

\* the status a timer row writes is "Not launched": hwndFound is null
NotLaunched(c) == c.found = NULL

\* C26: in every timer tick each listed file has its row, and the row's
\* status is "Not launched" exactly when the file has no entry with a live
\* handle and no live window's title contains its stripped base name; the
\* entry of such a file, if it has one, is the same after the tick.
C26_NotLaunchedIffUnresolved ==
    [][ (InLoop /\ lastOp'.op = "timer") =>
          /\ \A f \in FolderFiles : \E c \in lastOp'.calls : c.path = PathOf(f)
          /\ \A c \in lastOp'.calls :
                 /\ NotLaunched(c) =
                        ( /\ ~( /\ c.path \in DOMAIN m_fileWindowMap
                                /\ IsWindow(m_fileWindowMap[c.path].hwnd, win) )
                          /\ ~\E h \in DOMAIN win : TitleHas(h, Stem(c.path)) )
                 /\ (NotLaunched(c) /\ c.path \in DOMAIN m_fileWindowMap) =>
                        /\ c.path \in DOMAIN m_fileWindowMap'
                        /\ m_fileWindowMap'[c.path] = m_fileWindowMap[c.path]
      ]_vars

\* a timer tick has shown "Not launched" for a file whose entry is stale,
\* and the entry is still there
C26_Witness ==
    /\ lastOp.op = "timer"
    /\ \E c \in lastOp.calls :
           /\ NotLaunched(c)
           /\ c.hadEntry
           /\ c.path \in DOMAIN m_fileWindowMap
           /\ m_fileWindowMap[c.path].hwnd = c.storedHwnd
    /\ \E c \in lastOp.calls : ~NotLaunched(c) /\ ~c.hadEntry

\* C27: a timer tick leaves the set of keys of the store as it was and leaves
\* every entry whose handle is dead as it was; a window it finds by title for
\* a file without an entry is not recorded.
C27_TimerKeepsKeysAndStaleEntries ==
    [][ (InLoop /\ lastOp'.op = "timer") =>
          /\ DOMAIN m_fileWindowMap' = DOMAIN m_fileWindowMap
          /\ \A p \in DOMAIN m_fileWindowMap :
                 ~IsWindow(m_fileWindowMap[p].hwnd, win)
                     => m_fileWindowMap'[p] = m_fileWindowMap[p]
      ]_vars

\* a timer tick has found, by its title, the window of a file that has no
\* entry, and the file still has none
C27_Witness ==
    /\ lastOp.op = "timer"
    /\ \E c \in lastOp.calls :
           ~c.hadEntry /\ c.found # NULL /\ c.path \notin DOMAIN m_fileWindowMap

\* the handler that runs in this step is an activation of a .url file
UrlActivation ==
    /\ InLoop
    /\ lastOp'.op \in {"urlError", "browser", "activate", "launchCall"}
    /\ IsUrlFile(lastOp'.path)

AsyncCreationFailed ==
    \/ lastOp.m_browserPanel.environment = "failed"
    \/ lastOp.m_browserPanel.controller \in {"failed", "noWebView"}

\* C29: every URL given to a call of ShowIntegratedBrowser whose panel
\* creation did not fail is eventually navigated to by the WebView, unless
\* the environment or the controller then fails to be created.
C29_RequestedUrlIsNavigated ==
    \A url \in Urls :
        (url \in lastOp.requested)
            ~> (url \in lastOp.navigated \/ AsyncCreationFailed)

\* C30: an activation of a file that is not a .url file calls LaunchFile
\* exactly when the file has no entry with a live handle and no live window's
\* title contains its stripped base name; otherwise it brings an existing
\* window to the front and starts nothing, so a file whose tracked window is
\* open is not launched again.
C30_LaunchIffUnresolved ==
    [][ \A f \in FolderFiles :
          LET path == PathOf(f)
              tracked == /\ path \in DOMAIN m_fileWindowMap
                         /\ IsWindow(m_fileWindowMap[path].hwnd, win)
              titled == \E h \in DOMAIN win : TitleHas(h, Stem(path))
          IN  (ActivationOf(path) /\ ~IsUrlFile(path)) =>
                  /\ (lastOp'.op = "launchCall") = (~tracked /\ ~titled)
                  /\ lastOp'.op = "launchCall" =>
                         /\ phase' = "calling"
                         /\ launch'.filePath = path
                  /\ lastOp'.op = "activate" =>
                         /\ IsWindow(lastOp'.found, win)
                         /\ zorder'[1] = lastOp'.found
                         /\ phase' = "running"
                         /\ launch' = launch
                  /\ tracked => lastOp'.found = m_fileWindowMap[path].hwnd
      ]_vars

\* a file whose tracked window is open, under a title that does not show the
\* file's name, was activated again and its window came to the front
C30_Witness ==
    /\ lastOp.op = "activate"
    /\ ~IsUrlFile(lastOp.path)
    /\ \E c \in lastOp.calls :
           /\ c.storedLive
           /\ c.found = c.storedHwnd
           /\ IsWindow(c.found, win)
           /\ ~TitleHas(c.found, Stem(c.path))

\* C31: when LaunchFile records a fingerprint, the handle it records is that
\* of a window which, on the desktop the lookup enumerated, was visible and
\* owned by the process this launch started; a launch that started no process
\* records nothing, and no launch records a window of another process.
C31_LaunchRecordsOwnVisibleWindow ==
    [][ LaunchReturns =>
          LET hwndLaunched == lastOp'.found
              started == GetProcessId(launch.hProcess)
          IN  /\ hwndLaunched # NULL =>
                    /\ launch.hProcess # NULL
                    /\ started = arrival.pid
                    /\ IsWindow(hwndLaunched, win)
                    /\ win[hwndLaunched].visible
                    /\ win[hwndLaunched].pid = started
                    /\ m_fileWindowMap'[launch.filePath].hwnd = hwndLaunched
              /\ (hwndLaunched = NULL \/ launch.hProcess = NULL) =>
                    m_fileWindowMap' = m_fileWindowMap
              /\ \A path \in DOMAIN m_fileWindowMap' :
                    (path # launch.filePath =>
                        /\ path \in DOMAIN m_fileWindowMap
                        /\ m_fileWindowMap'[path] = m_fileWindowMap[path])
      ]_vars

\* a launch recorded the window of its process while a visible window of
\* another process stood above it in the enumeration order
C31_Witness ==
    /\ lastOp.op = "launchReturn"
    /\ lastOp.found # NULL
    /\ lastOp.path \in DOMAIN m_fileWindowMap
    /\ m_fileWindowMap[lastOp.path].hwnd = lastOp.found
    /\ IsWindow(lastOp.found, win)
    /\ \E i, j \in 1..Len(zorder) :
           /\ i < j
           /\ zorder[j] = lastOp.found
           /\ win[zorder[i]].visible
           /\ win[zorder[i]].pid # win[lastOp.found].pid

\* C32: the line SaveTrackingMapping writes for a store entry is parsed by
\* LoadTrackingMapping back into the entry's path and process id, also for a
\* path with a space in it.
C32_SavedLineParsesBack ==
    lastOp.op = "parsed" =>
        LET keys == SortedKeys(DOMAIN m_fileWindowMap)
        IN  /\ Len(lastOp.records) = Len(keys)
            /\ \A i \in 1..Len(keys) :
                   /\ lastOp.records[i].ok
                   /\ lastOp.records[i].filePath = keys[i]
                   /\ lastOp.records[i].processId =
                          m_fileWindowMap[keys[i]].processId

\* C33: handles are not kept unique across keys.  An activation whose title
\* search finds a window stores that window's handle under the activated path
\* and leaves every other entry as it was, also an entry that already holds
\* the same handle; so two distinct paths can hold one handle.
C33_TitleSearchSharesHandles ==
    [][ \A f \in FolderFiles :
          LET path == PathOf(f)
          IN  (/\ ActivationOf(path)
               /\ lastOp'.op = "activate"
               /\ \E c \in lastOp'.calls : c.byName)
              => /\ path \in DOMAIN m_fileWindowMap'
                 /\ m_fileWindowMap'[path].hwnd = lastOp'.found
                 /\ \A q \in DOMAIN m_fileWindowMap \ {path} :
                        /\ q \in DOMAIN m_fileWindowMap'
                        /\ m_fileWindowMap'[q] = m_fileWindowMap[q]
      ]_vars

\* two distinct paths hold the handle of one live window, whose title
\* contains the stripped base names of both, after the title search gave the
\* second path the window the first already had
C33_Witness ==
    /\ lastOp.op = "activate"
    /\ \E c \in lastOp.calls : c.byName /\ c.found = lastOp.found
    /\ \E p, q \in DOMAIN m_fileWindowMap :
           /\ p # q
           /\ p = lastOp.path
           /\ m_fileWindowMap[p].hwnd = m_fileWindowMap[q].hwnd
           /\ m_fileWindowMap[p].hwnd = lastOp.found
           /\ IsWindow(lastOp.found, win)
           /\ TitleHas(lastOp.found, Stem(p))
           /\ TitleHas(lastOp.found, Stem(q))

\* the handler of this step re-validates the entry of path: a timer tick, or
\* an activation of that path, that finds the stored handle live
Revalidating(path) ==
    /\ InLoop
    /\ \/ lastOp'.op = "timer"
       \/ lastOp'.op = "activate" /\ lastOp'.path = path
    /\ path \in DOMAIN m_fileWindowMap
    /\ IsWindow(m_fileWindowMap[path].hwnd, win)

\* C34: a re-validation of an entry whose stored handle is live leaves the
\* entry's handle as it was and leaves the entry's process id and class name
\* equal to those GetFingerprint captures from that handle now: the record is
\* kept when the stable attributes match and is replaced by the fresh
\* fingerprint of the same handle when they do not.
C34_RevalidationKeepsHandleAndStableFields ==
    [][ \A f \in FolderFiles :
          LET path == PathOf(f)
          IN  Revalidating(path) =>
                LET stored == m_fileWindowMap[path]
                    currentFp == GetFingerprint(stored.hwnd, win, tick, RectHome)
                    after == m_fileWindowMap'[path]
                IN  /\ path \in DOMAIN m_fileWindowMap'
                    /\ after.hwnd = stored.hwnd
                    /\ after.processId = currentFp.processId
                    /\ after.className = currentFp.className
                    /\ after = IF CompareStableAttributes(stored, currentFp)
                               THEN stored ELSE currentFp
      ]_vars

\* a re-validation ran on an entry whose handle is a live window of class
\* "ed", and the entry carries that handle, that class name and the window's
\* title
C34_Witness ==
    /\ lastOp.op \in {"timer", "activate"}
    /\ \E c \in lastOp.calls :
           /\ c.csa
           /\ c.storedLive
           /\ c.path \in DOMAIN m_fileWindowMap
           /\ m_fileWindowMap[c.path].hwnd = c.storedHwnd
           /\ IsWindow(c.storedHwnd, win)
           /\ win[c.storedHwnd].cls = ClassLower
           /\ m_fileWindowMap[c.path].className = ClassLower
           /\ m_fileWindowMap[c.path].windowTitle = win[c.storedHwnd].title

\* C35: a fingerprint written into the store was captured from a handle that
\* was a live window when GetFingerprint ran, also when windows are destroyed
\* between the handler's check or lookup and that call; no entry is the
\* fingerprint of a dead handle, with empty class name and title.
C35_StoredFingerprintsAreOfLiveWindows ==
    /\ (lastOp.op = "captured" /\ m_fileWindowMap[lastOp.path] = lastOp.fp)
           => lastOp.live
    /\ \A path \in DOMAIN m_fileWindowMap :
           ~(/\ m_fileWindowMap[path].className = <<>>
             /\ m_fileWindowMap[path].windowTitle = <<>>)

\* C36: once the panel has been destroyed its controller and web view
\* references are null and stay null, and no creation callback runs on it
\* afterwards, whether the destruction came after both callbacks, between
\* them or before the first.
C36_DestroyedPanelIsLeftAlone ==
    /\ [](lastOp.op = "destructed" =>
              /\ ~lastOp.m_browserPanel.m_controller
              /\ ~lastOp.m_browserPanel.m_webView)
    /\ [][lastOp.op = "destructed" => lastOp' = lastOp]_vars

\* the panel was destroyed while the controller-created callback was still
\* outstanding
C36_Witness ==
    /\ lastOp.op = "destructed"
    /\ lastOp.m_browserPanel.environment = "ok"
    /\ lastOp.m_browserPanel.controller = "pending"

\* C37: after every RefreshLauncherButtons the button map has at most
\* MAX_LAUNCHER_BUTTONS entries, every control id in it lies in
\* [ID_LAUNCHER_BUTTON_BASE, ID_LAUNCHER_BUTTON_BASE + 5), every id maps to a
\* file marked as launcher, and a file that is not marked has no button; a
\* button's WM_COMMAND goes on with the path mapped to its id and with no
\* path for an id that is not mapped.
C37_ButtonsMatchMarkedFiles ==
    LET marks == lastOp.m_launcherMap
        byId == lastOp.m_launcherButtonMap
        byPath == lastOp.m_fileButtons
    IN  /\ Cardinality(DOMAIN byId) <= 5
        /\ \A id \in DOMAIN byId :
               /\ id >= ID_LAUNCHER_BUTTON_BASE
               /\ id < ID_LAUNCHER_BUTTON_BASE + 5
               /\ byId[id] \in DOMAIN marks
               /\ marks[byId[id]]
               /\ byId[id] \in DOMAIN byPath
        /\ \A path \in DOMAIN byPath : path \in DOMAIN marks /\ marks[path]
        /\ \A path \in DOMAIN marks :
               ~marks[path] =>
                   /\ path \notin DOMAIN byPath
                   /\ \A id \in DOMAIN byId : byId[id] # path
        /\ lastOp.op = "launcher" =>
               /\ lastOp.wmId \in DOMAIN byId
               /\ lastOp.filePath = byId[lastOp.wmId]
        /\ lastOp.op = "command" =>
               /\ lastOp.wmId \notin DOMAIN byId
               /\ lastOp.filePath = <<>>

\* six files are marked and one is not: five buttons exist, the sixth marked
\* file has none, and the button with the last id was clicked
C37_Witness ==
    /\ lastOp.op = "launcher"
    /\ lastOp.wmId = ID_LAUNCHER_BUTTON_BASE + MAX_LAUNCHER_BUTTONS - 1
    /\ Cardinality(DOMAIN lastOp.m_launcherButtonMap) = MAX_LAUNCHER_BUTTONS
    /\ Cardinality({p \in DOMAIN lastOp.m_launcherMap : lastOp.m_launcherMap[p]}) = 6
    /\ \E p \in DOMAIN lastOp.m_launcherMap : ~lastOp.m_launcherMap[p]

====
